---- MODULE Spec2Model ----
(***************************************************************************)
(* goauth: the session store (authorization codes and grants), the         *)
(* authorization-code token exchange, the lazy expiry of grants, the       *)
(* authorize and token endpoints, the scope checks and the bearer gate.    *)
(*                                                                         *)
(* Every request runs in its own goroutine.  The only shared state is the  *)
(* in-memory backend, whose methods each take the mutex for one            *)
(* Put/Get/Delete; a step of the model is therefore one backend call       *)
(* together with the request-local code around it.                         *)
(*                                                                         *)
(* Time is counted in clock ticks of half a second.                        *)
(***************************************************************************)
EXTENDS Integers, Sequences, FiniteSets, TLC

\* ---------------------------------------------------------------- bounds
NumProcs == 2           \* concurrent requests
MaxTime == 2            \* clock ticks (half seconds)
MaxOutstanding == 2     \* codes of one raw value minted and not redeemed
MaxScopeLen == 3        \* the words and spaces of a scope parameter, the entries of a scope
MaxSecretLen == 3       \* the runes of a Secret

\* ------------------------------------------------------------- constants
Second == 2                             \* time.Second, in ticks
DefaultAuthorizationCodeExpiry == 2     \* package variable, in ticks
DefaultTokenExpiry == 1                 \* package variable, in seconds
StatusOK == 200
StatusFound == 302
StatusBadRequest == 400
StatusUnauthorized == 401
StatusInternalServerError == 500

GrantTypeAuthorizationCode == "authorization_code"
GrantTypeClientCredentials == "client_credentials"
DefaultTokenType == "bearer"
GrantTypePassword == "password"
ResponseTypeCode == "code"
ResponseTypeToken == "token"

Procs == 1..NumProcs
Tokens == {"t1"}                        \* raw values of authorization codes
AccessTokens == {"t1", "t2"}            \* access tokens stored and checked directly
URIs == {"", "u1"}                      \* "" is the absent redirect_uri
ScopeSets == {<<"read">>}
GrantExpiries == {1}                    \* Grant.ExpiresIn, in seconds

nil == "nil"
ErrorInvalidRequest == "invalid_request"
ErrorUnauthorizedClient == "unauthorized_client"
ErrorAccessDenied == "access_denied"
ErrorServerError == "server_error"
ErrorParseForm == "parse_error"         \* the error of r.ParseForm
ErrorToken == "token_error"             \* the error of NewToken
ErrorUnsupportedResponseType == "unsupported_response_type"
ErrorInvalidScope == "invalid_scope"
ErrorParseURL == "url_parse_error"      \* the error of url.Parse
ErrorScope == "scope_error"             \* the error of Client.AuthorizeScope
ErrorOwner == "owner_error"             \* the error of Client.AuthorizeResourceOwner
ErrorCredentials == "username or password invalid"
ErrorInternal == "an internal server error occurred, please try again"

\* Error.StatusCode, the status fixed for each error kind.
StatusCode(e) ==
    CASE e = ErrorInvalidRequest -> StatusBadRequest
      [] e = ErrorUnauthorizedClient -> StatusUnauthorized
      [] e = ErrorAccessDenied -> StatusUnauthorized
      [] e = ErrorUnsupportedResponseType -> StatusBadRequest
      [] e = ErrorInvalidScope -> StatusBadRequest
      [] OTHER -> StatusInternalServerError

\* ------------------------------------------------------------ the records
\* AuthorizationCode{} and Grant{}, the zero values.  ClientID is the client
\* the code was issued to.
NoAuthCode ==
    [Code |-> "", ClientID |-> "", RedirectURI |-> "", Scope |-> <<>>, CreatedAt |-> 0,
     ExpiresIn |-> 0]
\* A client as a grant and a gate see it: the scope it is allowed (the
\* scope a testClient is built with) and whether its AuthorizeScope fails.
\* NoClient is the nil Client.
NoClient == [ID |-> "", scope |-> <<>>, scopeErr |-> FALSE]
NoGrant ==
    [AccessToken |-> "", ExpiresIn |-> 0, Scope |-> <<>>, CreatedAt |-> 0,
     Client |-> NoClient]

\* AuthorizationCode.IsExpired at time t.
AuthCodeIsExpired_OffByOne(a, t) ==
    IF a.CreatedAt + a.ExpiresIn >= t THEN FALSE ELSE TRUE
AuthCodeIsExpired(a, t) ==
    IF a.CreatedAt + a.ExpiresIn > t THEN FALSE ELSE TRUE

\* Grant.IsExpired at time t.
GrantIsExpired(g, t) ==
    IF g.CreatedAt + (g.ExpiresIn * Second) > t THEN FALSE ELSE TRUE

\* ------------------------------------------- MemSessionStoreBackend (maps)
MapPut(m, k, v) == [x \in (DOMAIN m) \cup {k} |-> IF x = k THEN v ELSE m[x]]
MapDelete(m, k) == [x \in (DOMAIN m) \ {k} |-> m[x]]
EmptyMap == [x \in {} |-> NoAuthCode]

\* PutGrant keys the grant by AccessToken.RawString(); the mutant keys it by
\* String(), the masked token.
PutGrant_Masked(m, grant) ==
    [m |-> MapPut(m, "xx", grant), err |-> nil]
PutGrant(m, grant) ==
    [m |-> MapPut(m, grant.AccessToken, grant), err |-> nil]

GetGrant(m, accessToken) ==
    IF accessToken \in DOMAIN m
    THEN [grant |-> m[accessToken], err |-> nil]
    ELSE [grant |-> NoGrant, err |-> ErrorAccessDenied]

DeleteGrant_Quiet(m, accessToken) ==
    [m |-> MapDelete(m, accessToken), err |-> nil]
DeleteGrant(m, accessToken) ==
    IF accessToken \in DOMAIN m
    THEN [m |-> MapDelete(m, accessToken), err |-> nil]
    ELSE [m |-> m, err |-> ErrorServerError]

PutAuthorizationCode_Drop(m, a) ==
    [m |-> m, err |-> nil]
PutAuthorizationCode(m, a) ==
    [m |-> MapPut(m, a.Code, a), err |-> nil]

GetAuthorizationCode(m, c) ==
    IF c \in DOMAIN m
    THEN [authCode |-> m[c], err |-> nil]
    ELSE [authCode |-> NoAuthCode, err |-> ErrorAccessDenied]

DeleteAuthorizationCode_Blind(m, c) ==
    [m |-> MapDelete(m, c), err |-> nil]
DeleteAuthorizationCode_Keep(m, c) ==
    IF c \in DOMAIN m
    THEN [m |-> m, err |-> nil]
    ELSE [m |-> m, err |-> ErrorServerError]
DeleteAuthorizationCode(m, c) ==
    IF c \in DOMAIN m
    THEN [m |-> MapDelete(m, c), err |-> nil]
    ELSE [m |-> m, err |-> ErrorServerError]

\* ----------------------------------------------------------- SessionStore
\* CheckAuthorizationCode: the code fetched, the error, and the store as the
\* call leaves it.
CheckAuthorizationCode_Consuming(m, c, uri, t) ==
    LET g == GetAuthorizationCode(m, c) IN
    IF g.err # nil
    THEN [authCode |-> g.authCode, err |-> g.err, m |-> m]
    ELSE IF g.authCode.RedirectURI # "" /\ g.authCode.RedirectURI # uri
    THEN [authCode |-> g.authCode, err |-> ErrorAccessDenied, m |-> MapDelete(m, c)]
    ELSE IF AuthCodeIsExpired(g.authCode, t)
    THEN [authCode |-> g.authCode, err |-> ErrorAccessDenied, m |-> MapDelete(m, c)]
    ELSE [authCode |-> g.authCode, err |-> nil, m |-> m]
CheckAuthorizationCode_NoBinding(m, c, uri, t) ==
    LET g == GetAuthorizationCode(m, c) IN
    IF g.err # nil
    THEN [authCode |-> g.authCode, err |-> g.err, m |-> m]
    ELSE IF AuthCodeIsExpired(g.authCode, t)
    THEN [authCode |-> g.authCode, err |-> ErrorAccessDenied, m |-> m]
    ELSE [authCode |-> g.authCode, err |-> nil, m |-> m]
CheckAuthorizationCode(m, c, uri, t) ==
    LET g == GetAuthorizationCode(m, c) IN
    IF g.err # nil
    THEN [authCode |-> g.authCode, err |-> g.err, m |-> m]
    ELSE IF g.authCode.RedirectURI # "" /\ g.authCode.RedirectURI # uri
    THEN [authCode |-> g.authCode, err |-> ErrorAccessDenied, m |-> m]
    ELSE IF AuthCodeIsExpired(g.authCode, t)
    THEN [authCode |-> g.authCode, err |-> ErrorAccessDenied, m |-> m]
    ELSE [authCode |-> g.authCode, err |-> nil, m |-> m]

\* ------------------------------------------------------------- the state
VARIABLES
    authCodes,      \* MemSessionStoreBackend.authCodes
    grants,         \* MemSessionStoreBackend.grants
    now,            \* timeNow()
    pc,             \* where each request stands
    code,           \* request-local: the code or token presented
    authCode,       \* request-local: the AuthorizationCode being minted
    scope,          \* request-local: authCode.Scope of the code checked
    newGrant,       \* request-local: the Grant being minted
    request,        \* request-local: the request being served
    last,           \* the response written by the step just taken, if any
    outstanding,    \* per raw value: codes stored less grants issued
    consumed,       \* raw values deleted by an exchange and not minted since
    used            \* consumed values whose exchange ended in a grant

vars == <<authCodes, grants, now, pc, code, authCode, scope, newGrant, request, last,
          outstanding, consumed, used>>

store == <<authCodes, grants>>
history == <<outstanding, consumed, used>>

\* One response: the operation, the check it ended at, the error and HTTP
\* status written, the code or token presented (and the redirect URI, for a
\* direct CheckAuthorizationCode), whether a grant was stored.
Response(p, op, stage, err, status, key, uri, issued) ==
    [op |-> op, stage |-> stage, err |-> err, status |-> status,
     key |-> key, uri |-> uri, issued |-> issued]

NoResponse == Response(0, "none", "", nil, 0, "", "", FALSE)

\* No request, and the call of a SessionStore method on its own.
NoRequest == [op |-> "none"]
DirectCall == [op |-> "call"]

Init ==
    /\ authCodes = EmptyMap
    /\ grants = EmptyMap
    /\ now = 0
    /\ pc = [p \in Procs |-> "idle"]
    /\ code = [p \in Procs |-> ""]
    /\ authCode = [p \in Procs |-> NoAuthCode]
    /\ scope = [p \in Procs |-> <<>>]
    /\ newGrant = [p \in Procs |-> NoGrant]
    /\ request = [p \in Procs |-> NoRequest]
    /\ last = NoResponse
    /\ outstanding = [c \in Tokens |-> 0]
    /\ consumed = {}
    /\ used = {}

\* The request returns: its locals are gone, its response is recorded.
Return(p, r) ==
    /\ pc' = [pc EXCEPT ![p] = "idle"]
    /\ code' = [code EXCEPT ![p] = ""]
    /\ authCode' = [authCode EXCEPT ![p] = NoAuthCode]
    /\ scope' = [scope EXCEPT ![p] = <<>>]
    /\ newGrant' = [newGrant EXCEPT ![p] = NoGrant]
    /\ request' = [request EXCEPT ![p] = NoRequest]
    /\ last' = r

\* The request goes on to its next backend call; nothing is written yet.
Goto(p, label, c, a, sc) ==
    /\ pc' = [pc EXCEPT ![p] = label]
    /\ code' = [code EXCEPT ![p] = c]
    /\ authCode' = [authCode EXCEPT ![p] = a]
    /\ scope' = [scope EXCEPT ![p] = sc]
    /\ UNCHANGED <<newGrant, request>>
    /\ last' = NoResponse

\* The clock advances.
Tick ==
    /\ now < MaxTime
    /\ now' = now + 1
    /\ last' = NoResponse
    /\ UNCHANGED <<authCodes, grants, pc, code, authCode, scope, newGrant, request, history>>

\* A new request runs in the first free handler: handlers are
\* interchangeable, a request has no identity of its own.
Free(p) ==
    /\ pc[p] = "idle"
    /\ \A q \in Procs : q < p => pc[q] # "idle"

\* ------------------------------------------------------------- the scope
\* The scope names, and the sequences of at most n entries of S.
ScopeWords == {"read", "write"}
SeqUpTo(S, n) == UNION {[1..k -> S] : k \in 0..n}

\* The scope parameters a request can carry, as their words and the single
\* spaces between them: no word follows a word without a space.
RawScopes ==
    {raw \in SeqUpTo(ScopeWords \cup {" "}, MaxScopeLen) :
        \A i \in 1..(Len(raw) - 1) : raw[i] = " " \/ raw[i + 1] = " "}

\* strings.Split(raw, " "): the pieces between the spaces, some of them the
\* empty string; never fewer than one piece.
RECURSIVE Split(_)
Split(raw) ==
    LET spaces == {i \in 1..Len(raw) : raw[i] = " "}
        word(piece) == IF Len(piece) = 0 THEN "" ELSE piece[1]
    IN IF spaces = {}
       THEN <<word(raw)>>
       ELSE LET i == CHOOSE k \in spaces : \A j \in spaces : k <= j
            IN <<word(SubSeq(raw, 1, i - 1))>> \o Split(SubSeq(raw, i + 1, Len(raw)))

checkInScope(check, sc) == \E i \in 1..Len(sc) : sc[i] = check

\* testClient.AuthorizeScope: every requested entry, in the order asked and
\* once for each entry of the client's scope equal to it.  The slice it
\* returns is nil exactly when it is empty.
testClientAuthorizeScope_Everything(allowed, sc) == sc
testClientAuthorizeScope_Allowed(allowed, sc) == allowed
RECURSIVE testClientAuthorizeScope(_, _)
testClientAuthorizeScope(allowed, sc) ==
    IF Len(sc) = 0
    THEN <<>>
    ELSE LET n == Cardinality({j \in 1..Len(allowed) : allowed[j] = sc[1]})
         IN [i \in 1..n |-> sc[1]] \o testClientAuthorizeScope(allowed, Tail(sc))

\* Client.AuthorizeScope of a client of a grant.
ClientAuthorizeScope(client, sc) ==
    IF client.scopeErr
    THEN [scope |-> <<>>, err |-> ErrorScope]
    ELSE [scope |-> testClientAuthorizeScope(client.scope, sc), err |-> nil]

\* Grant.CheckScope.
CheckScope(g, requiredScope) ==
    LET missing(sc) ==
            \E i \in 1..Len(requiredScope) : ~checkInScope(requiredScope[i], sc)
        authorized == ClientAuthorizeScope(g.Client, requiredScope)
    IN IF missing(g.Scope) THEN ErrorAccessDenied
       ELSE IF g.Client = NoClient THEN nil
       ELSE IF authorized.err # nil THEN ErrorAccessDenied
       ELSE IF Len(authorized.scope) # 0 /\ missing(authorized.scope) THEN ErrorAccessDenied
       ELSE nil

\* ----------------------------------------- the authorize endpoint: requests
\* The redirect_uri parameters a request can carry: none, a URI in the form
\* URL.String gives it, the same URI in another spelling, and one that
\* url.Parse rejects.
RawURIs == {"", "u1", "U1", "%"}
States == {"", "s1"}                    \* "" is the absent state parameter
RequestedScope == <<"read", "write">>   \* the scope parameter, split; the scope of the client

\* url.Parse followed by URL.String: the URI respelled (the scheme is
\* lowercased), or the parse error.
ParseURL(raw) ==
    CASE raw = "%" -> [uri |-> "", err |-> ErrorParseURL]
      [] raw = "U1" -> [uri |-> "u1", err |-> nil]
      [] OTHER -> [uri |-> raw, err |-> nil]

\* A narrowed scope: the first n entries of the scope asked for.
Keep(sc, n) == SubSeq(sc, 1, IF n < Len(sc) THEN n ELSE Len(sc))

\* A POST to the authorize endpoint by a known, eligible client with an
\* authorized redirect URI and valid credentials; every other request
\* differs from it in what is listed.  entry tells whether the request comes
\* through Server.authorizeHandler or the handler is invoked on its own;
\* allowed, ownerErr and ownerAllowed are the client's answers, its scope
\* the first clientKeep entries of RequestedScope,
\* credsOK and ownerKeep the Authenticator's.
GoodRequest ==
    [op |-> "authorize", entry |-> "endpoint", responseType |-> ResponseTypeCode,
     method |-> "POST", clientID |-> "c1", clientKnown |-> TRUE, allowStrategy |-> TRUE,
     redirectURI |-> "u1", allowed |-> {"u1"}, state |-> "",
     rawScope |-> <<"read", " ", "write">>,
     scopeErr |-> FALSE, clientKeep |-> 2, parseFormOK |-> TRUE,
     ownerErr |-> FALSE, ownerAllowed |-> TRUE, credsOK |-> TRUE, ownerKeep |-> 2,
     tokenErr |-> FALSE]

\* Requests whose response_type selects no handler.
UnroutedRequests == {[GoodRequest EXCEPT !.responseType = "other"]}

\* Requests handled by handleAuthorizationCodeGrant.  What lies behind the
\* first failing check is never read and is left as in GoodRequest; the
\* requests that pass every check vary one parameter at a time.
AuthorizeRejected ==
    {[GoodRequest EXCEPT !.clientID = "", !.clientKnown = FALSE],
     [GoodRequest EXCEPT !.clientKnown = FALSE],
     [GoodRequest EXCEPT !.allowStrategy = FALSE],
     [GoodRequest EXCEPT !.redirectURI = "%"],
     [GoodRequest EXCEPT !.redirectURI = "", !.allowed = {}],
     [GoodRequest EXCEPT !.redirectURI = "u1", !.allowed = {}],
     [GoodRequest EXCEPT !.redirectURI = "U1", !.allowed = {"U1"}]}
AuthorizeMistyped ==
    {[GoodRequest EXCEPT !.entry = "handler", !.responseType = "other", !.redirectURI = u] :
        u \in {"u1", "U1"}}
AuthorizeFailed ==
    {[GoodRequest EXCEPT !.scopeErr = TRUE],
     [GoodRequest EXCEPT !.method = "GET"],
     [GoodRequest EXCEPT !.method = "GET", !.rawScope = <<>>],
     [GoodRequest EXCEPT !.parseFormOK = FALSE],
     [GoodRequest EXCEPT !.ownerErr = TRUE],
     [GoodRequest EXCEPT !.ownerAllowed = FALSE],
     [GoodRequest EXCEPT !.credsOK = FALSE],
     [GoodRequest EXCEPT !.tokenErr = TRUE]}
AuthorizeGranted ==
    {GoodRequest,
     [GoodRequest EXCEPT !.redirectURI = "U1"],
     [GoodRequest EXCEPT !.state = "s1"],
     [GoodRequest EXCEPT !.ownerKeep = 1],
     [GoodRequest EXCEPT !.clientKeep = 1, !.ownerKeep = 1]}
AuthorizeRequests ==
    AuthorizeRejected \cup AuthorizeMistyped \cup AuthorizeFailed \cup AuthorizeGranted

\* --------------------------------------------- Server.authorizeHandler
\* The handler registered for the request's response_type, if any.
authorizeHandlers == {ResponseTypeCode, ResponseTypeToken}
Dispatch(r) ==
    IF r.entry = "handler" THEN r.op
    ELSE IF r.responseType \notin authorizeHandlers THEN "none"
    ELSE IF r.responseType = ResponseTypeCode THEN "authorize" ELSE "implicit"

\* One response of the authorize endpoint: a direct JSON error, a page
\* rendered inline by the AuthorizationHandler, or a redirect to uri with
\* the parameters params; key is the code or token handed out.
AuthorizeResponse(r, stage, via, status, err, uri, params, key, issued) ==
    [op |-> r.op, stage |-> stage, err |-> err, status |-> status, key |-> key,
     uri |-> uri, issued |-> issued, via |-> via, params |-> params, request |-> r]

\* ---------------------------------------- handleAuthorizationCodeGrant
\* Client.AllowRedirectURI.
AllowRedirectURI_Any(r, uri) == TRUE
AllowRedirectURI(r, uri) == uri \in r.allowed

\* Client.AuthorizeScope on the scope asked for, the scope parameter split.
AuthorizeScope(r) ==
    IF r.scopeErr
    THEN [scope |-> <<>>, err |-> ErrorScope]
    ELSE [scope |-> testClientAuthorizeScope(Keep(RequestedScope, r.clientKeep),
                                             Split(r.rawScope)),
          err |-> nil]

\* The checks of the resource owner in a POST: the form, the client's
\* consent to act for the owner, the Authenticator's check of the
\* credentials, which narrows the scope once more.
OwnerChecks_Unchecked(r, sc) ==
    IF ~r.parseFormOK
    THEN [stage |-> "parse_form", err |-> ErrorParseForm, scope |-> <<>>]
    ELSE [stage |-> "passed", err |-> nil, scope |-> Keep(sc, r.ownerKeep)]
OwnerChecks(r, sc) ==
    IF ~r.parseFormOK
    THEN [stage |-> "parse_form", err |-> ErrorParseForm, scope |-> <<>>]
    ELSE IF r.ownerErr
    THEN [stage |-> "owner_error", err |-> ErrorOwner, scope |-> sc]
    ELSE IF ~r.ownerAllowed
    THEN [stage |-> "owner_refused", err |-> ErrorUnauthorizedClient, scope |-> sc]
    ELSE IF ~r.credsOK
    THEN [stage |-> "credentials", err |-> ErrorCredentials, scope |-> <<>>]
    ELSE [stage |-> "passed", err |-> nil, scope |-> Keep(sc, r.ownerKeep)]

\* The scope a code is minted for: narrowed by the client, then by the
\* Authenticator.
AuthorizedScope_ClientOnly(r) == AuthorizeScope(r).scope
AuthorizedScope(r) == OwnerChecks(r, AuthorizeScope(r).scope).scope

\* The handler up to the minting of the code: the response it ends with, or
\* stage "passed".
AuthorizeChecks(r) ==
    LET parsed == ParseURL(r.redirectURI)
        scoped == AuthorizeScope(r)
        owner == OwnerChecks(r, scoped.scope)
        direct(stage, status, err) ==
            AuthorizeResponse(r, stage, "json", status, err, "", {}, "", FALSE)
        inline(stage, err) ==
            AuthorizeResponse(r, stage, "inline", StatusOK, err, "",
                              {<<"scope", IF stage = "form" THEN scoped.scope ELSE owner.scope>>},
                              "", FALSE)
    IN
    IF ~r.clientKnown
    THEN direct("client", StatusUnauthorized, ErrorUnauthorizedClient)
    ELSE IF ~r.allowStrategy
    THEN direct("strategy", StatusUnauthorized, ErrorUnauthorizedClient)
    ELSE IF parsed.err # nil
    THEN direct("parse_uri", StatusInternalServerError, parsed.err)
    ELSE IF ~AllowRedirectURI(r, parsed.uri)
    THEN direct("redirect_uri", StatusCode(ErrorUnauthorizedClient), ErrorUnauthorizedClient)
    ELSE IF r.responseType # ResponseTypeCode
    THEN AuthorizeResponse(r, "response_type", "redirect", StatusFound,
                           ErrorUnsupportedResponseType, parsed.uri,
                           {<<"error", ErrorUnsupportedResponseType>>,
                            <<"error_description", "unsupported">>}, "", FALSE)
    ELSE IF scoped.err # nil
    THEN direct("scope", StatusUnauthorized, scoped.err)
    ELSE IF r.method # "POST"
    THEN inline("form", nil)
    ELSE IF owner.stage # "passed"
    THEN inline(owner.stage, owner.err)
    ELSE AuthorizeResponse(r, "passed", "", 0, nil, parsed.uri, {}, "", FALSE)

\* The redirect that hands out the code, with the state if there is one.
AuthorizeRedirect(r, a) ==
    AuthorizeResponse(r, "redirect", "redirect", StatusFound, nil,
                      ParseURL(r.redirectURI).uri,
                      {<<"code", a.Code>>} \cup
                      (IF r.state # "" THEN {<<"state", r.state>>} ELSE {}),
                      a.Code, FALSE)

\* What the caller of NewAuthorizationCode writes once the code is stored.
StoredResponse(p, req, a, err) ==
    IF req.op = "authorize"
    THEN IF err # nil
         THEN AuthorizeResponse(req, "store", "inline", StatusOK, ErrorInternal, "", {}, "", FALSE)
         ELSE AuthorizeRedirect(req, a)
    ELSE Response(p, "newCode", "stored", err, 0, a.Code, "", FALSE)

\* --------------------------------- SessionStore.NewAuthorizationCode
\* Requests about to store a code of raw value c.
Minting(c) == Cardinality({p \in Procs : pc[p] = "put_code" /\ code[p] = c})

\* NewToken, the construction of the code and the collision check
\* (GetAuthorizationCode); the insert is the next step.  The direct calls
\* are those of one client, "c1".
NewAuthorizationCodeGet(p, tokenErr, c, redirectURI, sc) ==
    /\ Free(p)
    /\ outstanding[c] + Minting(c) < MaxOutstanding
    /\ LET a == [Code |-> c, ClientID |-> "c1", RedirectURI |-> redirectURI, Scope |-> sc,
                 CreatedAt |-> now, ExpiresIn |-> DefaultAuthorizationCodeExpiry]
           existing == GetAuthorizationCode(authCodes, a.Code)
       IN IF tokenErr
          THEN Return(p, Response(p, "newCode", "token", ErrorToken, 0, "", "", FALSE))
          ELSE IF existing.err = nil /\ existing.authCode.Code = a.Code
          THEN Return(p, Response(p, "newCode", "collision", ErrorServerError, 0, c, "", FALSE))
          ELSE Goto(p, "put_code", c, a, <<>>)
    /\ UNCHANGED <<authCodes, grants, now, history>>

\* PutAuthorizationCode, the insert of the new code.
NewAuthorizationCodePut(p) ==
    /\ pc[p] = "put_code"
    /\ LET put == PutAuthorizationCode(authCodes, authCode[p]) IN
       /\ authCodes' = put.m
       /\ Return(p, StoredResponse(p, request[p], authCode[p], put.err))
    /\ outstanding' = [outstanding EXCEPT ![code[p]] = @ + 1]
    /\ consumed' = consumed \ {code[p]}
    /\ used' = used \ {code[p]}
    /\ UNCHANGED <<grants, now>>

\* A request to the authorize endpoint, up to the collision check of
\* NewAuthorizationCode; c is the value NewToken yields.
AuthorizeRequest(p, r, c) ==
    /\ Free(p)
    /\ LET out == AuthorizeChecks(r)
           a == [Code |-> c, ClientID |-> r.clientID, RedirectURI |-> r.redirectURI,
                 Scope |-> AuthorizedScope(r),
                 CreatedAt |-> now, ExpiresIn |-> DefaultAuthorizationCodeExpiry]
           existing == GetAuthorizationCode(authCodes, a.Code)
           failed(stage) ==
               AuthorizeResponse(r, stage, "inline", StatusOK, ErrorInternal, "", {}, "", FALSE)
       IN IF Dispatch(r) = "none"
          THEN Return(p, AuthorizeResponse(r, "dispatch", "json", StatusCode(ErrorInvalidRequest),
                                           ErrorInvalidRequest, "", {}, "", FALSE))
          ELSE IF out.stage # "passed"
          THEN Return(p, out)
          ELSE /\ outstanding[c] + Minting(c) < MaxOutstanding
               /\ IF r.tokenErr
                  THEN Return(p, failed("token"))
                  ELSE IF existing.err = nil /\ existing.authCode.Code = a.Code
                  THEN Return(p, failed("collision"))
                  ELSE /\ pc' = [pc EXCEPT ![p] = "put_code"]
                       /\ code' = [code EXCEPT ![p] = c]
                       /\ authCode' = [authCode EXCEPT ![p] = a]
                       /\ request' = [request EXCEPT ![p] = r]
                       /\ last' = NoResponse
                       /\ UNCHANGED <<scope, newGrant>>
    /\ UNCHANGED <<authCodes, grants, now, history>>

\* ------------------------------ SessionStore.CheckAuthorizationCode, called
\* on its own.
CheckAuthorizationCodeCall(p, c, redirectURI) ==
    /\ Free(p)
    /\ LET chk == CheckAuthorizationCode(authCodes, c, redirectURI, now) IN
       /\ authCodes' = chk.m
       /\ Return(p, Response(p, "checkCode", "checked", chk.err, 0, c, redirectURI, FALSE))
    /\ UNCHANGED <<grants, now, history>>

\* ------------------------------------------ handleAuthCodeTokenRequest
\* A token request: what ParseForm, BasicAuth, the Authenticator and the
\* client answer, and the posted parameters.  Inputs behind the first failing
\* check are never read and are fixed here.
PreCheckFailures(r) ==
    Cardinality({x \in {"parse", "basic", "client", "strategy", "grant_type"} :
        \/ x = "parse" /\ ~r.parseOK
        \/ x = "basic" /\ ~r.basicAuth
        \/ x = "client" /\ ~r.clientOK
        \/ x = "strategy" /\ ~r.allowStrategy
        \/ x = "grant_type" /\ r.grantType # GrantTypeAuthorizationCode})

TokenRequests ==
    {r \in [parseOK : BOOLEAN, basicAuth : BOOLEAN, clientOK : BOOLEAN,
            allowStrategy : BOOLEAN,
            grantType : {GrantTypeAuthorizationCode, GrantTypePassword},
            code : Tokens \cup {""}, redirectURI : URIs, allowURI : BOOLEAN] :
        /\ PreCheckFailures(r) <= 1
        /\ PreCheckFailures(r) = 1 => r.code # ""
        /\ (PreCheckFailures(r) = 1 \/ r.code = "") => (r.redirectURI = "" /\ r.allowURI)}

\* The checks up to the code parameter: the check that ended the request
\* ("passed" if none did), the error and the status.
PreChecks(r) ==
    IF ~r.parseOK
    THEN [stage |-> "parse", err |-> ErrorParseForm, status |-> StatusInternalServerError]
    ELSE IF ~r.basicAuth
    THEN [stage |-> "basic_auth", err |-> ErrorAccessDenied, status |-> StatusCode(ErrorAccessDenied)]
    ELSE IF ~r.clientOK
    THEN [stage |-> "client", err |-> ErrorUnauthorizedClient, status |-> StatusUnauthorized]
    ELSE IF ~r.allowStrategy
    THEN [stage |-> "strategy", err |-> ErrorUnauthorizedClient, status |-> StatusUnauthorized]
    ELSE IF r.grantType # GrantTypeAuthorizationCode
    THEN [stage |-> "grant_type", err |-> ErrorInvalidRequest, status |-> StatusBadRequest]
    ELSE IF r.code = ""
    THEN [stage |-> "code_missing", err |-> ErrorAccessDenied, status |-> StatusUnauthorized]
    ELSE [stage |-> "passed", err |-> nil, status |-> StatusOK]

\* CheckAuthorizationCode and the client's own redirect-URI check: the
\* outcome, the code in hand and the store as the two checks leave it.
CodeChecks_DeleteFirst(m, r, t) ==
    LET chk == CheckAuthorizationCode(m, r.code, r.redirectURI, t) IN
    IF chk.err # nil
    THEN [stage |-> "check_code", err |-> ErrorAccessDenied, status |-> StatusUnauthorized,
          authCode |-> chk.authCode, m |-> chk.m]
    ELSE IF ~r.allowURI
    THEN [stage |-> "redirect_uri", err |-> ErrorUnauthorizedClient, status |-> StatusUnauthorized,
          authCode |-> chk.authCode, m |-> DeleteAuthorizationCode(chk.m, r.code).m]
    ELSE [stage |-> "passed", err |-> nil, status |-> StatusOK,
          authCode |-> chk.authCode, m |-> chk.m]
CodeChecks(m, r, t) ==
    LET chk == CheckAuthorizationCode(m, r.code, r.redirectURI, t) IN
    IF chk.err # nil
    THEN [stage |-> "check_code", err |-> ErrorAccessDenied, status |-> StatusUnauthorized,
          authCode |-> chk.authCode, m |-> chk.m]
    ELSE IF ~r.allowURI
    THEN [stage |-> "redirect_uri", err |-> ErrorUnauthorizedClient, status |-> StatusUnauthorized,
          authCode |-> chk.authCode, m |-> chk.m]
    ELSE [stage |-> "passed", err |-> nil, status |-> StatusOK,
          authCode |-> chk.authCode, m |-> chk.m]

\* The request up to and including the two code checks.
TokenRequestCheck(p, r) ==
    /\ Free(p)
    /\ LET pre == PreChecks(r)
           chk == CodeChecks(authCodes, r, now)
       IN IF pre.stage # "passed"
          THEN /\ Return(p, Response(p, "exchange", pre.stage, pre.err, pre.status,
                                     r.code, "", FALSE))
               /\ UNCHANGED authCodes
          ELSE /\ authCodes' = chk.m
               /\ IF chk.stage # "passed"
                  THEN Return(p, Response(p, "exchange", chk.stage, chk.err, chk.status,
                                          r.code, "", FALSE))
                  ELSE Goto(p, "delete_code", r.code, NoAuthCode, chk.authCode.Scope)
    /\ UNCHANGED <<grants, now, history>>

\* DeleteAuthorizationCode, the single-use deletion.
TokenRequestDelete(p) ==
    /\ pc[p] = "delete_code"
    /\ LET del == DeleteAuthorizationCode(authCodes, code[p]) IN
       /\ authCodes' = del.m
       /\ IF del.err # nil
          THEN /\ Return(p, Response(p, "exchange", "delete_code", ErrorServerError,
                                     StatusInternalServerError, code[p], "", FALSE))
               /\ UNCHANGED consumed
          ELSE /\ Goto(p, "issue", code[p], authCode[p], scope[p])
               /\ consumed' = consumed \cup {code[p]}
    /\ UNCHANGED <<grants, now, outstanding, used>>

\* What client.CreateGrant(scope) can return at time t: an error, or a grant
\* for that scope under any token.
CreateGrant(sc, t) ==
    {[grant |-> NoGrant, err |-> ErrorServerError]} \cup
    {[grant |-> [AccessToken |-> tok, ExpiresIn |-> e, Scope |-> sc, CreatedAt |-> t,
                 Client |-> NoClient],
      err |-> nil] : tok \in Tokens, e \in GrantExpiries}

\* CreateGrant, PutGrant and the writing of the grant: the outcome, and the
\* codes and grants as the request leaves them.  c is the code that was
\* deleted and sc its scope; putErr is a backend whose PutGrant fails (the
\* in-memory one never does), writeErr a failing grant.Write.
IssueGrant_Restore(codes, m, c, sc, t, created, putErr, writeErr, status) ==
    LET again == [Code |-> c, ClientID |-> "", RedirectURI |-> "", Scope |-> sc,
                  CreatedAt |-> t, ExpiresIn |-> DefaultAuthorizationCodeExpiry]
    IN
    IF created.err # nil
    THEN [stage |-> "create_grant", err |-> ErrorServerError, status |-> StatusInternalServerError,
          codes |-> PutAuthorizationCode(codes, again).m, m |-> m, issued |-> FALSE]
    ELSE IF putErr
    THEN [stage |-> "put_grant", err |-> ErrorServerError, status |-> StatusInternalServerError,
          codes |-> PutAuthorizationCode(codes, again).m, m |-> m, issued |-> FALSE]
    ELSE IF writeErr
    THEN [stage |-> "write", err |-> ErrorServerError, status |-> status,
          codes |-> codes, m |-> PutGrant(m, created.grant).m, issued |-> TRUE]
    ELSE [stage |-> "granted", err |-> nil, status |-> StatusOK,
          codes |-> codes, m |-> PutGrant(m, created.grant).m, issued |-> TRUE]
IssueGrant(codes, m, c, sc, t, created, putErr, writeErr, status) ==
    IF created.err # nil
    THEN [stage |-> "create_grant", err |-> ErrorServerError, status |-> StatusInternalServerError,
          codes |-> codes, m |-> m, issued |-> FALSE]
    ELSE IF putErr
    THEN [stage |-> "put_grant", err |-> ErrorServerError, status |-> StatusInternalServerError,
          codes |-> codes, m |-> m, issued |-> FALSE]
    ELSE IF writeErr
    THEN [stage |-> "write", err |-> ErrorServerError, status |-> status,
          codes |-> codes, m |-> PutGrant(m, created.grant).m, issued |-> TRUE]
    ELSE [stage |-> "granted", err |-> nil, status |-> StatusOK,
          codes |-> codes, m |-> PutGrant(m, created.grant).m, issued |-> TRUE]

\* The rest of the request: the grant is created, stored and written.  A
\* failed write leaves the status at the implicit 200 or, if nothing was
\* sent yet, at 500.
TokenRequestIssue(p, created, putErr, writeErr, status) ==
    /\ pc[p] = "issue"
    /\ (created.err # nil) => (~putErr /\ ~writeErr)
    /\ putErr => ~writeErr
    /\ writeErr \/ status = StatusOK
    /\ LET out == IssueGrant(authCodes, grants, code[p], scope[p], now,
                             created, putErr, writeErr, status)
       IN
       /\ grants' = out.m
       /\ authCodes' = out.codes
       /\ Return(p, Response(p, "exchange", out.stage, out.err, out.status,
                             code[p], "", out.issued))
       /\ outstanding' = IF out.issued
                         THEN [outstanding EXCEPT ![code[p]] = @ - 1]
                         ELSE outstanding
       /\ used' = IF out.stage = "granted" /\ code[p] \in consumed
                  THEN used \cup {code[p]}
                  ELSE used
    /\ UNCHANGED <<now, consumed>>

\* ------------------------------------ the exchange, client and parameters
\* A token request as the client that sends it and the parameters it
\* carries: clientID is the client the Basic credentials authenticate,
\* rawScope a scope parameter of the form, which the handler never reads.
GoodExchange ==
    [op |-> "exchange", parseOK |-> TRUE, basicAuth |-> TRUE, clientOK |-> TRUE,
     allowStrategy |-> TRUE, grantType |-> GrantTypeAuthorizationCode,
     code |-> "t1", redirectURI |-> "u1", allowURI |-> TRUE,
     clientID |-> "c1", rawScope |-> <<>>]
ExchangeRequests ==
    {GoodExchange,
     [GoodExchange EXCEPT !.clientID = "c2"],
     [GoodExchange EXCEPT !.rawScope = <<"read">>],
     [GoodExchange EXCEPT !.rawScope = <<"write">>],
     [GoodExchange EXCEPT !.rawScope = <<"read", " ", "write">>],
     [GoodExchange EXCEPT !.clientID = "c2", !.rawScope = <<"write">>],
     [GoodExchange EXCEPT !.redirectURI = "U1"],
     [GoodExchange EXCEPT !.redirectURI = ""],
     [GoodExchange EXCEPT !.allowURI = FALSE],
     [GoodExchange EXCEPT !.clientOK = FALSE],
     [GoodExchange EXCEPT !.basicAuth = FALSE]}

\* The request up to and including the two code checks, with the request
\* and the code returned by CheckAuthorizationCode kept as the handler
\* holds them: the grant is created for authCode.Scope.
ExchangeRequest_RequestScope(p, r) ==
    /\ Free(p)
    /\ LET pre == PreChecks(r)
           chk == CodeChecks(authCodes, r, now)
       IN IF pre.stage # "passed"
          THEN /\ Return(p, Response(p, "exchange", pre.stage, pre.err, pre.status,
                                     r.code, "", FALSE))
               /\ UNCHANGED authCodes
          ELSE /\ authCodes' = chk.m
               /\ IF chk.stage # "passed"
                  THEN Return(p, Response(p, "exchange", chk.stage, chk.err, chk.status,
                                          r.code, "", FALSE))
                  ELSE /\ pc' = [pc EXCEPT ![p] = "delete_code"]
                       /\ code' = [code EXCEPT ![p] = r.code]
                       /\ authCode' = [authCode EXCEPT ![p] = chk.authCode]
                       /\ scope' = [scope EXCEPT ![p] =
                                        SelectSeq(r.rawScope, LAMBDA w : w # " ")]
                       /\ request' = [request EXCEPT ![p] = r]
                       /\ last' = NoResponse
                       /\ UNCHANGED newGrant
    /\ UNCHANGED <<grants, now, history>>
ExchangeRequest(p, r) ==
    /\ Free(p)
    /\ LET pre == PreChecks(r)
           chk == CodeChecks(authCodes, r, now)
       IN IF pre.stage # "passed"
          THEN /\ Return(p, Response(p, "exchange", pre.stage, pre.err, pre.status,
                                     r.code, "", FALSE))
               /\ UNCHANGED authCodes
          ELSE /\ authCodes' = chk.m
               /\ IF chk.stage # "passed"
                  THEN Return(p, Response(p, "exchange", chk.stage, chk.err, chk.status,
                                          r.code, "", FALSE))
                  ELSE /\ pc' = [pc EXCEPT ![p] = "delete_code"]
                       /\ code' = [code EXCEPT ![p] = r.code]
                       /\ authCode' = [authCode EXCEPT ![p] = chk.authCode]
                       /\ scope' = [scope EXCEPT ![p] = chk.authCode.Scope]
                       /\ request' = [request EXCEPT ![p] = r]
                       /\ last' = NoResponse
                       /\ UNCHANGED newGrant
    /\ UNCHANGED <<grants, now, history>>

\* ----------------------------------------------- SessionStore.CheckGrant
\* GetGrant and the expiry test; the delete of an expired grant is the next
\* step.
CheckGrantGet(p, accessToken) ==
    /\ Free(p)
    /\ LET got == GetGrant(grants, accessToken) IN
       IF got.err # nil
       THEN Return(p, Response(p, "checkGrant", "get_grant", got.err, 0, accessToken, "", FALSE))
       ELSE IF GrantIsExpired(got.grant, now)
       THEN Goto(p, "delete_grant", accessToken, NoAuthCode, <<>>)
       ELSE Return(p, Response(p, "checkGrant", "valid", nil, 0, accessToken, "", FALSE))
    /\ UNCHANGED <<authCodes, grants, now, history>>

\* The response of a secured handler: what the gate wrote, how often it
\* wrote an error (writes) and how often it invoked the handler (invoked).
GateResponse(r, stage, status, err, key, writes, invoked) ==
    [op |-> "gate", stage |-> stage, err |-> err, status |-> status, key |-> key,
     uri |-> "", issued |-> FALSE, via |-> "json", request |-> r,
     writes |-> writes, invoked |-> invoked]

\* What the caller of CheckGrant writes when the grant had expired.
ExpiredResponse(p, req, accessToken, err) ==
    IF req.op = "gate"
    THEN GateResponse(req, "check_grant", StatusUnauthorized, err, accessToken, 1, 0)
    ELSE Response(p, "checkGrant", "expired", err, 0, accessToken, "", FALSE)

\* The error CheckGrant returns for an expired grant, given DeleteGrant's.
ExpiredGrantError(delErr) == IF delErr = nil THEN ErrorAccessDenied ELSE delErr

\* DeleteGrant of the expired grant.
CheckGrantDelete_Sweep(p) ==
    /\ pc[p] = "delete_grant"
    /\ grants' = [k \in {x \in DOMAIN grants : ~GrantIsExpired(grants[x], now)} |-> grants[k]]
    /\ Return(p, ExpiredResponse(p, request[p], code[p], ErrorAccessDenied))
    /\ UNCHANGED <<authCodes, now, history>>
CheckGrantDelete(p) ==
    /\ pc[p] = "delete_grant"
    /\ LET del == DeleteGrant(grants, code[p]) IN
       /\ grants' = del.m
       /\ Return(p, ExpiredResponse(p, request[p], code[p], ExpiredGrantError(del.err)))
    /\ UNCHANGED <<authCodes, now, history>>

\* ------------------------------------------------- SessionStore.PutGrant
\* A grant created at or before this instant is stored under its access token.
PutGrantCall(p, accessToken, expiresIn, sc, createdAt) ==
    /\ Free(p)
    /\ LET grant == [AccessToken |-> accessToken, ExpiresIn |-> expiresIn,
                     Scope |-> sc, CreatedAt |-> createdAt, Client |-> NoClient]
           put == PutGrant(grants, grant)
       IN /\ grants' = put.m
          /\ Return(p, Response(p, "putGrant", "stored", put.err, 0, accessToken, "", TRUE))
    /\ UNCHANGED <<authCodes, now, history>>

\* -------------------------------------------------- handleImplicitGrant
\* A request for a token by a known, eligible client with an authorized
\* redirect URI; every other request differs from it in what is listed.
\* strategyErr is an error of Client.AllowStrategy.
GoodImplicit ==
    [op |-> "implicit", entry |-> "endpoint", responseType |-> ResponseTypeToken,
     clientID |-> "c1", clientKnown |-> TRUE, strategyErr |-> FALSE, allowStrategy |-> TRUE,
     redirectURI |-> "u1", allowed |-> {"u1"}, state |-> "",
     rawScope |-> <<"read", " ", "write">>,
     scopeErr |-> FALSE, clientKeep |-> 2]

\* Requests handled by handleImplicitGrant: those it turns away, with and
\* without a state, and those it grants.
ImplicitRejected ==
    {[GoodImplicit EXCEPT !.entry = "handler", !.responseType = "other"],
     [GoodImplicit EXCEPT !.redirectURI = "", !.allowed = {}],
     [GoodImplicit EXCEPT !.redirectURI = "%", !.allowed = {}],
     [GoodImplicit EXCEPT !.clientID = "", !.clientKnown = FALSE],
     [GoodImplicit EXCEPT !.clientKnown = FALSE],
     [GoodImplicit EXCEPT !.clientKnown = FALSE, !.state = "s1"],
     [GoodImplicit EXCEPT !.strategyErr = TRUE],
     [GoodImplicit EXCEPT !.allowStrategy = FALSE],
     [GoodImplicit EXCEPT !.scopeErr = TRUE],
     [GoodImplicit EXCEPT !.allowed = {}]}
ImplicitGranted ==
    {GoodImplicit,
     [GoodImplicit EXCEPT !.redirectURI = "U1", !.allowed = {"U1"}],
     [GoodImplicit EXCEPT !.state = "s1"],
     [GoodImplicit EXCEPT !.clientKeep = 1]}
ImplicitRequests == ImplicitRejected \cup ImplicitGranted

\* implicitErrorRedirect: the error in the fragment of the redirect URI as
\* the request spells it, parsed anew.
implicitErrorRedirect(r, stage, e) ==
    LET parsed == ParseURL(r.redirectURI)
        frag == {<<"error", e>>, <<"error_description", "description">>}
    IN IF parsed.err # nil
       THEN AuthorizeResponse(r, stage, "redirect", StatusBadRequest, e, r.redirectURI, {}, "", FALSE)
       ELSE AuthorizeResponse(r, stage, "redirect", StatusFound, e, parsed.uri, frag, "", FALSE)

\* The handler up to the minting of the grant: the response it ends with,
\* or stage "passed".
ImplicitChecks(r) ==
    LET parsed == ParseURL(r.redirectURI)
        scoped == AuthorizeScope(r)
        direct(stage) ==
            AuthorizeResponse(r, stage, "json", StatusBadRequest, ErrorInvalidRequest,
                              "", {}, "", FALSE)
    IN
    IF r.responseType # ResponseTypeToken THEN direct("response_type")
    ELSE IF r.redirectURI = "" THEN direct("no_uri")
    ELSE IF parsed.err # nil THEN direct("parse_uri")
    ELSE IF r.clientID = "" THEN implicitErrorRedirect(r, "no_client", ErrorUnauthorizedClient)
    ELSE IF ~r.clientKnown THEN implicitErrorRedirect(r, "client", ErrorUnauthorizedClient)
    ELSE IF r.strategyErr THEN implicitErrorRedirect(r, "strategy_error", ErrorServerError)
    ELSE IF ~r.allowStrategy THEN implicitErrorRedirect(r, "strategy", ErrorUnauthorizedClient)
    ELSE IF scoped.err # nil THEN implicitErrorRedirect(r, "scope", ErrorInvalidScope)
    ELSE IF ~AllowRedirectURI(r, r.redirectURI)
    THEN implicitErrorRedirect(r, "redirect_uri", ErrorUnauthorizedClient)
    ELSE AuthorizeResponse(r, "passed", "", 0, nil, parsed.uri, {}, "", FALSE)

\* The redirect that hands out the grant in the fragment, with the state if
\* there is one.
ImplicitRedirect(r, g) ==
    AuthorizeResponse(r, "redirect", "redirect", StatusFound, nil,
                      ParseURL(r.redirectURI).uri,
                      {<<"access_token", g.AccessToken>>, <<"expires_in", g.ExpiresIn>>,
                       <<"token_type", "bearer">>, <<"scope", g.Scope>>} \cup
                      (IF r.state # "" THEN {<<"state", r.state>>} ELSE {}),
                      g.AccessToken, TRUE)

\* ------------------------- the client-credentials and the password grant
\* A request for a grant on the client's own behalf, with the Basic
\* credentials of a known client whose scope holds what is asked; every other
\* request differs from it in what is listed.  allowStrategy is the client's
\* answer, were it asked; writeErr a response that cannot be written.
GoodClientCredentials ==
    [op |-> "clientcreds", grantType |-> GrantTypeClientCredentials, basicAuth |-> TRUE,
     clientKnown |-> TRUE, allowStrategy |-> TRUE,
     client |-> [ID |-> "c1", scope |-> <<"read", "write">>, scopeErr |-> FALSE],
     rawScope |-> <<"read">>, writeErr |-> FALSE]

ClientCredentialsRejected ==
    {[GoodClientCredentials EXCEPT !.grantType = GrantTypePassword],
     [GoodClientCredentials EXCEPT !.basicAuth = FALSE],
     [GoodClientCredentials EXCEPT !.clientKnown = FALSE],
     [GoodClientCredentials EXCEPT !.client.scopeErr = TRUE]}
ClientCredentialsGranted ==
    {GoodClientCredentials,
     [GoodClientCredentials EXCEPT !.allowStrategy = FALSE],
     [GoodClientCredentials EXCEPT !.rawScope = <<>>],
     [GoodClientCredentials EXCEPT !.rawScope = <<"write", " ", "read">>,
                                   !.client.scope = <<"read">>],
     [GoodClientCredentials EXCEPT !.writeErr = TRUE]}
ClientCredentialsRequests == ClientCredentialsRejected \cup ClientCredentialsGranted

\* A request for a grant with the credentials of a resource owner.
\* ownerErr is the error of the client's AuthorizeResourceOwner, credsOK and
\* ownerKeep the Authenticator's answer.
GoodPassword ==
    [op |-> "password", grantType |-> GrantTypePassword, basicAuth |-> TRUE,
     clientKnown |-> TRUE, allowStrategy |-> TRUE,
     client |-> [ID |-> "c1", scope |-> <<"read", "write">>, scopeErr |-> FALSE],
     username |-> "alice", ownerErr |-> FALSE, password |-> "secret",
     rawScope |-> <<"read", " ", "write">>, credsOK |-> TRUE, ownerKeep |-> 2,
     writeErr |-> FALSE]

\* The request that fails the checks numbered in K and passes the others.
FailingPassword(K) ==
    [GoodPassword EXCEPT
        !.grantType = IF 1 \in K THEN GrantTypeClientCredentials ELSE @,
        !.basicAuth = 2 \notin K,
        !.clientKnown = 3 \notin K,
        !.username = IF 4 \in K THEN "" ELSE @,
        !.ownerErr = 5 \in K,
        !.password = IF 6 \in K THEN "" ELSE @,
        !.client.scopeErr = 7 \in K,
        !.credsOK = 8 \notin K]

\* The requests that fail one check, or one check and every later one.
PasswordRejected ==
    {FailingPassword({k}) : k \in 1..8} \cup {FailingPassword(k..8) : k \in 1..8}
PasswordGranted ==
    {GoodPassword,
     [GoodPassword EXCEPT !.allowStrategy = FALSE],
     [GoodPassword EXCEPT !.ownerKeep = 1],
     [GoodPassword EXCEPT !.client.scope = <<"write">>],
     [GoodPassword EXCEPT !.rawScope = <<>>]}
PasswordRequests == PasswordRejected \cup PasswordGranted

\* The response of a handler of the token endpoint: the JSON error it ends
\* with, or the grant as Grant.Write renders it.  calls lists what the
\* handler asked of the client and the Authenticator, asked the scope the
\* Authenticator was given.
TokenResponse(r, stage, status, err, calls, asked, g, issued) ==
    [op |-> r.op, stage |-> stage, err |-> err, status |-> status,
     key |-> g.AccessToken, uri |-> "", issued |-> issued, via |-> "json",
     request |-> r, calls |-> calls, asked |-> asked,
     body |-> IF stage = "granted"
              THEN [access_token |-> g.AccessToken, token_type |-> DefaultTokenType,
                    expires_in |-> g.ExpiresIn, scope |-> g.Scope]
              ELSE [access_token |-> "", token_type |-> "", expires_in |-> 0, scope |-> <<>>]]

\* The client-credentials handler up to NewGrant: the response it ends
\* with, or stage "passed" and the scope to grant.
ClientCredentialsChecks(r) ==
    LET scoped == ClientAuthorizeScope(r.client, Split(r.rawScope))
        fail(stage, status, err, calls) ==
            [stage |-> stage, status |-> status, err |-> err, calls |-> calls,
             asked |-> <<>>, scope |-> <<>>]
    IN
    IF r.grantType # GrantTypeClientCredentials
    THEN fail("grant_type", StatusBadRequest, ErrorInvalidRequest, <<>>)
    ELSE IF ~r.basicAuth
    THEN fail("basic_auth", StatusUnauthorized, ErrorAccessDenied, <<>>)
    ELSE IF ~r.clientKnown
    THEN fail("client", StatusUnauthorized, ErrorUnauthorizedClient, <<"client">>)
    ELSE IF scoped.err # nil
    THEN fail("scope", StatusUnauthorized, ErrorUnauthorizedClient, <<"client", "scope">>)
    ELSE [stage |-> "passed", status |-> 0, err |-> nil, calls |-> <<"client", "scope">>,
          asked |-> <<>>, scope |-> scoped.scope]

\* The Authenticator's AuthorizeGrant: it rejects the credentials or narrows
\* the scope it is given.
AuthorizeGrant(r, sc) ==
    IF ~r.credsOK
    THEN [scope |-> <<>>, err |-> ErrorCredentials]
    ELSE [scope |-> Keep(sc, r.ownerKeep), err |-> nil]

\* The password handler up to NewGrant.
PasswordChecks_RawScope(r) ==
    LET scoped == ClientAuthorizeScope(r.client, Split(r.rawScope))
        owner == AuthorizeGrant(r, Split(r.rawScope))
        fail(stage, status, err, calls) ==
            [stage |-> stage, status |-> status, err |-> err, calls |-> calls,
             asked |-> <<>>, scope |-> <<>>]
    IN
    IF r.grantType # GrantTypePassword
    THEN fail("grant_type", StatusBadRequest, ErrorInvalidRequest, <<>>)
    ELSE IF ~r.basicAuth
    THEN fail("basic_auth", StatusUnauthorized, ErrorAccessDenied, <<>>)
    ELSE IF ~r.clientKnown
    THEN fail("client", StatusUnauthorized, ErrorUnauthorizedClient, <<"client">>)
    ELSE IF r.username = ""
    THEN fail("username", StatusUnauthorized, ErrorAccessDenied, <<"client">>)
    ELSE IF r.ownerErr
    THEN fail("owner", StatusOK, ErrorOwner, <<"client", "owner">>)
    ELSE IF r.password = ""
    THEN fail("password", StatusUnauthorized, ErrorAccessDenied, <<"client", "owner">>)
    ELSE IF scoped.err # nil
    THEN fail("scope", StatusUnauthorized, ErrorUnauthorizedClient,
              <<"client", "owner", "scope">>)
    ELSE IF owner.err # nil
    THEN [stage |-> "credentials", status |-> StatusUnauthorized, err |-> owner.err,
          calls |-> <<"client", "owner", "scope", "authenticator">>,
          asked |-> Split(r.rawScope), scope |-> <<>>]
    ELSE [stage |-> "passed", status |-> 0, err |-> nil,
          calls |-> <<"client", "owner", "scope", "authenticator">>,
          asked |-> Split(r.rawScope), scope |-> owner.scope]
PasswordChecks(r) ==
    LET scoped == ClientAuthorizeScope(r.client, Split(r.rawScope))
        owner == AuthorizeGrant(r, scoped.scope)
        fail(stage, status, err, calls) ==
            [stage |-> stage, status |-> status, err |-> err, calls |-> calls,
             asked |-> <<>>, scope |-> <<>>]
    IN
    IF r.grantType # GrantTypePassword
    THEN fail("grant_type", StatusBadRequest, ErrorInvalidRequest, <<>>)
    ELSE IF ~r.basicAuth
    THEN fail("basic_auth", StatusUnauthorized, ErrorAccessDenied, <<>>)
    ELSE IF ~r.clientKnown
    THEN fail("client", StatusUnauthorized, ErrorUnauthorizedClient, <<"client">>)
    ELSE IF r.username = ""
    THEN fail("username", StatusUnauthorized, ErrorAccessDenied, <<"client">>)
    ELSE IF r.ownerErr
    THEN fail("owner", StatusOK, ErrorOwner, <<"client", "owner">>)
    ELSE IF r.password = ""
    THEN fail("password", StatusUnauthorized, ErrorAccessDenied, <<"client", "owner">>)
    ELSE IF scoped.err # nil
    THEN fail("scope", StatusUnauthorized, ErrorUnauthorizedClient,
              <<"client", "owner", "scope">>)
    ELSE IF owner.err # nil
    THEN [stage |-> "credentials", status |-> StatusUnauthorized, err |-> owner.err,
          calls |-> <<"client", "owner", "scope", "authenticator">>,
          asked |-> scoped.scope, scope |-> <<>>]
    ELSE [stage |-> "passed", status |-> 0, err |-> nil,
          calls |-> <<"client", "owner", "scope", "authenticator">>,
          asked |-> scoped.scope, scope |-> owner.scope]

\* The checks of the handler the request is for.
TokenChecks(r) ==
    IF r.op = "clientcreds" THEN ClientCredentialsChecks(r) ELSE PasswordChecks(r)

\* What a handler of the token endpoint writes once NewGrant has returned.
TokenGranted(r, g, err) ==
    LET out == TokenChecks(r) IN
    IF err # nil
    THEN TokenResponse(r, "new_grant", StatusInternalServerError, err,
                       out.calls, out.asked, g, FALSE)
    ELSE IF r.writeErr
    THEN TokenResponse(r, "write", StatusInternalServerError, ErrorInternal,
                       out.calls, out.asked, g, TRUE)
    ELSE TokenResponse(r, "granted", StatusOK, nil, out.calls, out.asked, g, TRUE)

\* ------------------------------------------------- SessionStore.NewGrant
\* Grant.Refresh with the token the generator yields, and the collision check
\* (GetGrant): on a collision NewGrant calls itself, otherwise the insert is
\* the next step.  sc is the scope the caller asked for, req the request the
\* call serves; the client-credentials handler hands over its client too.
NewGrantTry(p, tok, sc, req) ==
    LET g == [AccessToken |-> tok, ExpiresIn |-> DefaultTokenExpiry,
              Scope |-> sc, CreatedAt |-> now,
              Client |-> IF req.op = "clientcreds" THEN req.client ELSE NoClient]
        existing == GetGrant(grants, g.AccessToken)
        again == existing.err = nil /\ existing.grant.AccessToken = g.AccessToken
    IN /\ pc' = [pc EXCEPT ![p] = IF again THEN "new_grant" ELSE "put_grant"]
       /\ newGrant' = [newGrant EXCEPT ![p] = IF again THEN NoGrant ELSE g]
       /\ scope' = [scope EXCEPT ![p] = sc]
       /\ request' = [request EXCEPT ![p] = req]
       /\ last' = NoResponse
       /\ UNCHANGED <<authCodes, grants, now, code, authCode, history>>

\* Grant.Refresh at time t, with the token the generator yields: failure
\* tells whether the generator fails, at the access token or at the refresh
\* token.  The grant is the one the caller holds afterwards.
Refresh(g, tok, failure, t) ==
    IF failure = "access"
    THEN [grant |-> g, err |-> ErrorToken]
    ELSE IF failure = "refresh"
    THEN [grant |-> [g EXCEPT !.AccessToken = tok], err |-> ErrorToken]
    ELSE [grant |-> [g EXCEPT !.AccessToken = tok, !.ExpiresIn = DefaultTokenExpiry,
                              !.CreatedAt = t],
          err |-> nil]

\* NewGrant called on its own while the token generator fails: what Refresh
\* returns is dropped, and the grant goes on to the collision check and the
\* insert as it is.
NewGrantTokenError(p, tok, failure, sc) ==
    /\ Free(p)
    /\ failure \in {"access", "refresh"}
    /\ LET g == Refresh([NoGrant EXCEPT !.Scope = sc], tok, failure, now).grant
           existing == GetGrant(grants, g.AccessToken)
           again == existing.err = nil /\ existing.grant.AccessToken = g.AccessToken
       IN /\ pc' = [pc EXCEPT ![p] = IF again THEN "new_grant" ELSE "put_grant"]
          /\ newGrant' = [newGrant EXCEPT ![p] = IF again THEN NoGrant ELSE g]
          /\ scope' = [scope EXCEPT ![p] = sc]
          /\ request' = [request EXCEPT ![p] = DirectCall]
          /\ last' = NoResponse
          /\ UNCHANGED <<authCodes, grants, now, code, authCode, history>>

\* NewGrant called on its own.
NewGrantGet(p, tok, sc) ==
    /\ Free(p)
    /\ NewGrantTry(p, tok, sc, DirectCall)

\* NewGrant called by itself after a collision.
NewGrantRetry(p, tok) ==
    /\ pc[p] = "new_grant"
    /\ NewGrantTry(p, tok, scope[p], request[p])

\* What the caller of NewGrant writes once the grant is stored.
GrantedResponse(p, req, g, err) ==
    IF req.op = "implicit"
    THEN IF err # nil
         THEN implicitErrorRedirect(req, "new_grant", ErrorUnauthorizedClient)
         ELSE ImplicitRedirect(req, g)
    ELSE IF req.op \in {"clientcreds", "password"}
    THEN TokenGranted(req, g, err)
    ELSE Response(p, "newGrant", "stored", err, 0, g.AccessToken, "", err = nil)

\* A request for a token at the authorize endpoint, up to the collision
\* check of NewGrant; tok is the value NewToken yields.
ImplicitRequest(p, r, tok) ==
    /\ Free(p)
    /\ Dispatch(r) = "implicit"
    /\ LET out == ImplicitChecks(r) IN
       IF out.stage # "passed"
       THEN /\ Return(p, out)
            /\ UNCHANGED <<authCodes, grants, now, history>>
       ELSE NewGrantTry(p, tok, AuthorizeScope(r).scope, r)

\* A request for a grant at the token endpoint, up to the collision check of
\* NewGrant; tok is the value NewToken yields.
TokenEndpointRequest_StoreFirst(p, r, tok) ==
    /\ Free(p)
    /\ NewGrantTry(p, tok, TokenChecks(r).scope, r)
TokenEndpointRequest(p, r, tok) ==
    /\ Free(p)
    /\ LET out == TokenChecks(r) IN
       IF out.stage # "passed"
       THEN /\ Return(p, TokenResponse(r, out.stage, out.status, out.err,
                                       out.calls, out.asked, NoGrant, FALSE))
            /\ UNCHANGED <<authCodes, grants, now, history>>
       ELSE NewGrantTry(p, tok, out.scope, r)
ClientCredentialsRequest(p, r, tok) ==
    /\ r.op = "clientcreds"
    /\ TokenEndpointRequest(p, r, tok)
PasswordRequest(p, r, tok) ==
    /\ r.op = "password"
    /\ TokenEndpointRequest(p, r, tok)

\* PutGrant, the insert of the new grant.
NewGrantPut(p) ==
    /\ pc[p] = "put_grant"
    /\ LET put == PutGrant(grants, newGrant[p]) IN
       /\ grants' = put.m
       /\ Return(p, GrantedResponse(p, request[p], newGrant[p], put.err))
    /\ UNCHANGED <<authCodes, now, history>>

\* ------------------------------------------------------ checkBearerAuth
\* The Authorization headers a request can carry, as their parts: none, the
\* scheme, a space and a token, and headers that differ from that in the
\* scheme, in what follows it, or in the space.
Headers ==
    {<<>>, <<"Bearer", " ", "t1">>, <<"Bearer", " ", "t2">>, <<"Bearer", ":", " ", "t1">>,
     <<"bearer", " ", "t1">>, <<"Basic", " ", "t1">>, <<"Bearer", "t1">>,
     <<"Bearer", " ", " ", "t1">>}

\* strings.Index(cred, "Bearer") = 0: none of the other parts begins with it.
HasBearerPrefix(cred) == Len(cred) >= 1 /\ cred[1] = "Bearer"

\* strings.TrimPrefix(cred, "Bearer ").
TrimBearer(cred) ==
    IF Len(cred) >= 2 /\ cred[1] = "Bearer" /\ cred[2] = " "
    THEN SubSeq(cred, 3, Len(cred))
    ELSE cred

\* The string the parts spell, as a key of the store: a token only if it is
\* a single part, none of the others being one a generator yields.
AccessTokenOf(rest) ==
    IF Len(rest) = 1 /\ rest[1] \in AccessTokens THEN rest[1] ELSE "other"

\* A request to a secured handler: the header it carries and the scope the
\* gate was built with, if any (required tells a nil scope from an empty one).
\* scopeErr is an error of the AuthorizeScope of the grant's client, should
\* the gate ask it.
GoodGate ==
    [op |-> "gate", cred |-> <<"Bearer", " ", "t1">>, required |-> TRUE,
     requiredScope |-> <<"read">>, scopeErr |-> FALSE]
GateRequests ==
    {[GoodGate EXCEPT !.cred = h] : h \in Headers} \cup
    {[GoodGate EXCEPT !.required = FALSE, !.requiredScope = <<>>],
     [GoodGate EXCEPT !.requiredScope = <<>>],
     [GoodGate EXCEPT !.requiredScope = <<"write">>],
     [GoodGate EXCEPT !.requiredScope = <<"read", "write">>],
     [GoodGate EXCEPT !.scopeErr = TRUE],
     [GoodGate EXCEPT !.requiredScope = <<>>, !.scopeErr = TRUE]}

\* The gate once CheckGrant has returned the grant: the check of the
\* required scope against the grant's client, and the handler.
GateScope(r, g) ==
    LET client == [g.Client EXCEPT !.scopeErr = @ \/ r.scopeErr]
        authorized == ClientAuthorizeScope(client, r.requiredScope)
        refused == authorized.err # nil
        missing == \E i \in 1..Len(r.requiredScope) :
                      ~checkInScope(r.requiredScope[i], authorized.scope)
        denied(stage, writes) ==
            GateResponse(r, stage, StatusUnauthorized, ErrorAccessDenied, g.AccessToken,
                         writes, 0)
    IN
    IF ~r.required
    THEN GateResponse(r, "handler", 0, nil, g.AccessToken, 0, 1)
    ELSE IF g.Client = NoClient
    THEN denied("no_client", 1)
    ELSE IF missing
    THEN denied("scope", IF refused THEN 2 ELSE 1)
    ELSE IF refused
    THEN GateResponse(r, "handler", StatusUnauthorized, ErrorAccessDenied, g.AccessToken, 1, 1)
    ELSE GateResponse(r, "handler", 0, nil, g.AccessToken, 0, 1)

\* A request to a secured handler, up to GetGrant and the expiry test of
\* CheckGrant; the delete of an expired grant is the next step.
checkBearerAuth(p, r) ==
    /\ Free(p)
    /\ LET accessToken == AccessTokenOf(TrimBearer(r.cred))
           got == GetGrant(grants, accessToken)
           denied(stage, err, key) ==
               GateResponse(r, stage, StatusUnauthorized, err, key, 1, 0)
       IN IF Len(r.cred) = 0
          THEN Return(p, denied("no_header", ErrorAccessDenied, ""))
          ELSE IF ~HasBearerPrefix(r.cred)
          THEN Return(p, denied("scheme", ErrorAccessDenied, ""))
          ELSE IF got.err # nil
          THEN Return(p, denied("check_grant", got.err, accessToken))
          ELSE IF GrantIsExpired(got.grant, now)
          THEN /\ pc' = [pc EXCEPT ![p] = "delete_grant"]
               /\ code' = [code EXCEPT ![p] = accessToken]
               /\ request' = [request EXCEPT ![p] = r]
               /\ last' = NoResponse
               /\ UNCHANGED <<authCode, scope, newGrant>>
          ELSE Return(p, GateScope(r, got.grant))
    /\ UNCHANGED <<authCodes, grants, now, history>>

\* ----------------------------- the backend's methods called on their own
\* The grants and codes a caller stores, and the calls: each method of the
\* backend holds the mutex from its first statement to its last.
StoreScopes == {<<"read">>, <<"write">>}
StoreGrants ==
    {[NoGrant EXCEPT !.AccessToken = k, !.Scope = sc, !.ExpiresIn = DefaultTokenExpiry] :
        k \in AccessTokens, sc \in StoreScopes}
StoreCodes ==
    {[NoAuthCode EXCEPT !.Code = k, !.Scope = sc, !.ExpiresIn = DefaultAuthorizationCodeExpiry] :
        k \in AccessTokens, sc \in StoreScopes}
StoreCalls ==
    {[op |-> "PutGrant", key |-> g.AccessToken, grant |-> g, authCode |-> NoAuthCode] :
        g \in StoreGrants} \cup
    {[op |-> "PutAuthorizationCode", key |-> a.Code, grant |-> NoGrant, authCode |-> a] :
        a \in StoreCodes} \cup
    {[op |-> o, key |-> k, grant |-> NoGrant, authCode |-> NoAuthCode] :
        o \in {"GetGrant", "DeleteGrant", "GetAuthorizationCode", "DeleteAuthorizationCode"},
        k \in AccessTokens}

\* What a method of the backend returns to its caller.
StoreResponse(call, err, g, a) ==
    [op |-> call.op, stage |-> "returned", err |-> err, status |-> 0, key |-> call.key,
     uri |-> "", issued |-> FALSE, request |-> call, grant |-> g, authCode |-> a]

\* One call of a method of MemSessionStoreBackend.
BackendCall(p, call) ==
    /\ Free(p)
    /\ LET putG == PutGrant(grants, call.grant)
           getG == GetGrant(grants, call.key)
           delG == DeleteGrant(grants, call.key)
           putA == PutAuthorizationCode(authCodes, call.authCode)
           getA == GetAuthorizationCode(authCodes, call.key)
           delA == DeleteAuthorizationCode(authCodes, call.key)
           returns(codes, m, err, g, a) ==
               /\ authCodes' = codes
               /\ grants' = m
               /\ Return(p, StoreResponse(call, err, g, a))
       IN CASE call.op = "PutGrant" -> returns(authCodes, putG.m, putG.err, NoGrant, NoAuthCode)
            [] call.op = "GetGrant" -> returns(authCodes, grants, getG.err, getG.grant, NoAuthCode)
            [] call.op = "DeleteGrant" -> returns(authCodes, delG.m, delG.err, NoGrant, NoAuthCode)
            [] call.op = "PutAuthorizationCode" ->
                 returns(putA.m, grants, putA.err, NoGrant, NoAuthCode)
            [] call.op = "GetAuthorizationCode" ->
                 returns(authCodes, grants, getA.err, NoGrant, getA.authCode)
            [] call.op = "DeleteAuthorizationCode" ->
                 returns(delA.m, grants, delA.err, NoGrant, NoAuthCode)
    /\ UNCHANGED <<now, history>>

\* ------------------------------------------------------------------ Next
\* The authorization codes: minting, checking and the token exchange.
Next ==
    \/ Tick
    \/ \E p \in Procs, tokenErr \in BOOLEAN, c \in Tokens, uri \in URIs, sc \in ScopeSets :
          /\ tokenErr => (c = "t1" /\ uri = "" /\ sc = <<"read">>)
          /\ NewAuthorizationCodeGet(p, tokenErr, c, uri, sc)
    \/ \E p \in Procs : NewAuthorizationCodePut(p)
    \/ \E p \in Procs, c \in Tokens, uri \in URIs : CheckAuthorizationCodeCall(p, c, uri)
    \/ \E p \in Procs, r \in TokenRequests : TokenRequestCheck(p, r)
    \/ \E p \in Procs : TokenRequestDelete(p)
    \/ \E p \in Procs, putErr \in BOOLEAN, writeErr \in BOOLEAN,
          status \in {StatusOK, StatusInternalServerError} :
          \E created \in CreateGrant(scope[p], now) :
             TokenRequestIssue(p, created, putErr, writeErr, status)

Spec == Init /\ [][Next]_vars

\* The grants: storing them and checking them as time passes.
NextGrant ==
    \/ Tick
    \/ \E p \in Procs, accessToken \in AccessTokens, e \in GrantExpiries, sc \in ScopeSets :
          \E createdAt \in 0..now : PutGrantCall(p, accessToken, e, sc, createdAt)
    \/ \E p \in Procs, accessToken \in AccessTokens : CheckGrantGet(p, accessToken)
    \/ \E p \in Procs : CheckGrantDelete(p)
    \/ \E p \in Procs, tok \in AccessTokens, sc \in ScopeSets : NewGrantGet(p, tok, sc)
    \/ \E p \in Procs, tok \in AccessTokens : NewGrantRetry(p, tok)
    \/ \E p \in Procs : NewGrantPut(p)

SpecGrant == Init /\ [][NextGrant]_vars

\* The authorize endpoint of the authorization-code grant.
NextAuthorize ==
    \/ Tick
    \/ \E p \in Procs, r \in AuthorizeRequests \cup UnroutedRequests, c \in Tokens :
          AuthorizeRequest(p, r, c)
    \/ \E p \in Procs : NewAuthorizationCodePut(p)

SpecAuthorize == Init /\ [][NextAuthorize]_vars

\* The authorize endpoint of the implicit grant.  Nothing here reads the
\* clock but the stamp of a new grant, and it stands still.
NextImplicit ==
    \/ \E p \in Procs, r \in ImplicitRequests, tok \in AccessTokens : ImplicitRequest(p, r, tok)
    \/ \E p \in Procs, tok \in AccessTokens : NewGrantRetry(p, tok)
    \/ \E p \in Procs : NewGrantPut(p)

SpecImplicit == Init /\ [][NextImplicit]_vars

\* The token endpoint of the client-credentials and the password grant and
\* the consent prompt of the authorize endpoint.  Nothing here reads the
\* clock but the stamp of a new grant, and it stands still.
AuthorizePrompts == {r \in AuthorizeRequests : r.method = "GET"}
NextToken ==
    \/ \E p \in Procs, r \in ClientCredentialsRequests, tok \in Tokens :
          ClientCredentialsRequest(p, r, tok)
    \/ \E p \in Procs, r \in PasswordRequests, tok \in Tokens : PasswordRequest(p, r, tok)
    \/ \E p \in Procs, tok \in Tokens : NewGrantRetry(p, tok)
    \/ \E p \in Procs : NewGrantPut(p)
    \/ \E p \in Procs, r \in AuthorizePrompts, c \in Tokens : AuthorizeRequest(p, r, c)

SpecToken == Init /\ [][NextToken]_vars

\* The token endpoint and the handlers secured by the bearer gate, as time
\* passes.
NextSecure ==
    \/ Tick
    \/ \E p \in Procs, r \in ClientCredentialsRequests, tok \in Tokens :
          ClientCredentialsRequest(p, r, tok)
    \/ \E p \in Procs, r \in PasswordRequests, tok \in Tokens : PasswordRequest(p, r, tok)
    \/ \E p \in Procs, tok \in Tokens : NewGrantRetry(p, tok)
    \/ \E p \in Procs : NewGrantPut(p)
    \/ \E p \in Procs, r \in GateRequests : checkBearerAuth(p, r)
    \/ \E p \in Procs : CheckGrantDelete(p)

SpecSecure == Init /\ [][NextSecure]_vars

\* The bearer gate on its own, as time passes: the grants it checks are
\* those of a client (client credentials) and of a resource owner
\* (password).
GateGrants == {GoodClientCredentials, GoodPassword}
NextGate ==
    \/ Tick
    \/ \E p \in Procs, r \in GateGrants, tok \in Tokens : TokenEndpointRequest(p, r, tok)
    \/ \E p \in Procs, tok \in Tokens : NewGrantRetry(p, tok)
    \/ \E p \in Procs : NewGrantPut(p)
    \/ \E p \in Procs, r \in GateRequests : checkBearerAuth(p, r)
    \/ \E p \in Procs : CheckGrantDelete(p)

SpecGate == Init /\ [][NextGate]_vars

\* The backend called directly, and NewGrant; the clock stands still.
NextStore ==
    \/ \E p \in Procs, call \in StoreCalls : BackendCall(p, call)
    \/ \E p \in Procs, tok \in AccessTokens, sc \in StoreScopes : NewGrantGet(p, tok, sc)
    \/ \E p \in Procs, tok \in AccessTokens : NewGrantRetry(p, tok)
    \/ \E p \in Procs : NewGrantPut(p)

SpecStore == Init /\ [][NextStore]_vars

\* The minting of codes and grants with a token generator that can fail.
NextMint ==
    \/ \E p \in Procs, tokenErr \in BOOLEAN, c \in Tokens, uri \in URIs, sc \in StoreScopes :
          /\ tokenErr => (uri = "" /\ sc = <<"read">>)
          /\ NewAuthorizationCodeGet(p, tokenErr, c, uri, sc)
    \/ \E p \in Procs : NewAuthorizationCodePut(p)
    \/ \E p \in Procs, tok \in AccessTokens, sc \in StoreScopes : NewGrantGet(p, tok, sc)
    \/ \E p \in Procs, tok \in AccessTokens, failure \in {"access", "refresh"} :
          NewGrantTokenError(p, tok, failure, <<"read">>)
    \/ \E p \in Procs, tok \in AccessTokens : NewGrantRetry(p, tok)
    \/ \E p \in Procs : NewGrantPut(p)

SpecMint == Init /\ [][NextMint]_vars

\* ------------------------------------------------------------ the Secret
\* A Secret as the runes strings.Map ranges over; U+00E9 is a rune of two
\* bytes.
Runes == {"t", "e", "U+00E9"}
Secrets == SeqUpTo(Runes, MaxSecretLen)

\* Secret.RawString.
RawString(s) == s

\* Secret.render: strings.Map puts an x for every rune.
render_Raw(s) == s
render(s) == [i \in 1..Len(s) |-> "x"]

\* Secret.String.
String(s) == render(s)

\* Two secrets, each to be rendered both ways.
SecretCalls == {[op |-> "secret", a |-> a, b |-> b] : a \in Secrets, b \in Secrets}

InitSecret ==
    /\ authCodes = EmptyMap
    /\ grants = EmptyMap
    /\ now = 0
    /\ pc = [p \in Procs |-> IF p = 1 THEN "call" ELSE "idle"]
    /\ code = [p \in Procs |-> ""]
    /\ authCode = [p \in Procs |-> NoAuthCode]
    /\ scope = [p \in Procs |-> <<>>]
    /\ newGrant = [p \in Procs |-> NoGrant]
    /\ \E call \in SecretCalls : request = [p \in Procs |-> IF p = 1 THEN call ELSE NoRequest]
    /\ last = NoResponse
    /\ outstanding = [c \in Tokens |-> 0]
    /\ consumed = {}
    /\ used = {}

\* String and RawString of the two secrets.
SecretCall(p) ==
    /\ pc[p] = "call"
    /\ request[p].op = "secret"
    /\ LET call == request[p] IN
       Return(p, [op |-> "secret", stage |-> "returned", err |-> nil, status |-> 0,
                  key |-> "", uri |-> "", issued |-> FALSE, request |-> call,
                  masked |-> <<String(call.a), String(call.b)>>,
                  raw |-> <<RawString(call.a), RawString(call.b)>>])
    /\ UNCHANGED <<authCodes, grants, now, history>>

NextSecret == \E p \in Procs : SecretCall(p)

SpecSecret == InitSecret /\ [][NextSecret]_vars

\* ------------------------------- the scope functions called on their own
\* The scopes of grants, clients and gates, and the clients.
ScopeLists == SeqUpTo(ScopeWords, MaxScopeLen)
ScopeClients == {[ID |-> "c1", scope |-> sc, scopeErr |-> e] : sc \in ScopeLists, e \in BOOLEAN}

\* The calls: a request's scope parameter put to a client, and the scope a
\* gate requires checked against a grant.
ScopeCalls ==
    {[op |-> "authorizeScope", client |-> c, rawScope |-> raw] :
        c \in ScopeClients, raw \in RawScopes} \cup
    {[op |-> "checkScope", requiredScope |-> rs,
      grant |-> [NoGrant EXCEPT !.AccessToken = "t1", !.Scope = sc, !.Client = c]] :
        rs \in ScopeLists, sc \in ScopeLists, c \in ScopeClients \cup {NoClient}}

InitScope ==
    /\ authCodes = EmptyMap
    /\ grants = EmptyMap
    /\ now = 0
    /\ pc = [p \in Procs |-> IF p = 1 THEN "call" ELSE "idle"]
    /\ code = [p \in Procs |-> ""]
    /\ authCode = [p \in Procs |-> NoAuthCode]
    /\ scope = [p \in Procs |-> <<>>]
    /\ newGrant = [p \in Procs |-> NoGrant]
    /\ \E call \in ScopeCalls : request = [p \in Procs |-> IF p = 1 THEN call ELSE NoRequest]
    /\ last = NoResponse
    /\ outstanding = [c \in Tokens |-> 0]
    /\ consumed = {}
    /\ used = {}

\* strings.Split and Client.AuthorizeScope as the handlers call them, the
\* client asked once more about its own answer, and the Authenticator of the
\* tests, which hands back the scope it is given.
AuthorizeScopeCall(p) ==
    /\ pc[p] = "call"
    /\ request[p].op = "authorizeScope"
    /\ LET call == request[p]
           once == ClientAuthorizeScope(call.client, Split(call.rawScope))
           twice == ClientAuthorizeScope(call.client, once.scope)
           owner == AuthorizeGrant([credsOK |-> TRUE, ownerKeep |-> Len(once.scope)], once.scope)
       IN Return(p, [op |-> "authorizeScope", stage |-> "returned", err |-> once.err,
                     status |-> 0, key |-> "", uri |-> "", issued |-> FALSE,
                     request |-> call, requested |-> Split(call.rawScope),
                     scope |-> once.scope, again |-> twice.scope, granted |-> owner.scope])
    /\ UNCHANGED <<authCodes, grants, now, history>>

\* Grant.CheckScope.
CheckScopeCall(p) ==
    /\ pc[p] = "call"
    /\ request[p].op = "checkScope"
    /\ LET call == request[p] IN
       Return(p, [op |-> "checkScope", stage |-> "returned",
                  err |-> CheckScope(call.grant, call.requiredScope),
                  status |-> 0, key |-> "", uri |-> "", issued |-> FALSE, request |-> call])
    /\ UNCHANGED <<authCodes, grants, now, history>>

NextScope ==
    \/ \E p \in Procs : AuthorizeScopeCall(p)
    \/ \E p \in Procs : CheckScopeCall(p)

SpecScope == InitScope /\ [][NextScope]_vars

\* ================================================================ claims
\* The checks of the token exchange that come before the code is looked up.
PreStages == {"parse", "basic_auth", "client", "strategy", "grant_type", "code_missing"}
\* The checks a request can end at before the code is deleted.
StagesBeforeDelete == PreStages \cup {"check_code", "redirect_uri"}

\* The lifetime of a stored code has elapsed at time t.
Elapsed(a, t) == t >= a.CreatedAt + a.ExpiresIn
\* A token request completes, in this step, at one of its first checks.
ExchangeEndsEarly == last'.op = "exchange" /\ last'.stage \in StagesBeforeDelete
\* A token request passes, in this step, from the code checks to the deletion.
PassesChecks(p) == pc[p] = "idle" /\ pc'[p] = "delete_code"

\* C1 (as stated): once a code has been exchanged for a grant, every later
\* exchange request presenting the same raw value, no code of that value
\* having been minted since, is answered access_denied (401) and issues no
\* grant.
C1_SingleUseAlwaysAccessDenied ==
    [][/\ (ExchangeEndsEarly /\ last'.key \in used) =>
            /\ last'.err = ErrorAccessDenied
            /\ last'.status = StatusUnauthorized
            /\ ~last'.issued
            /\ grants' = grants
       /\ \A p \in Procs : PassesChecks(p) => code'[p] \notin used]_vars

\* C1 (amended): such a later request is always rejected and issues no
\* grant; it is answered access_denied (401) whenever it passes the checks
\* that precede the code lookup, and otherwise with the error of the first
\* of those checks that fails.
C1_SingleUse ==
    [][/\ (ExchangeEndsEarly /\ last'.key \in used) =>
            /\ last'.err # nil
            /\ ~last'.issued
            /\ grants' = grants
            /\ last'.stage \notin PreStages =>
                  /\ last'.stage = "check_code"
                  /\ last'.err = ErrorAccessDenied
                  /\ last'.status = StatusUnauthorized
       /\ \A p \in Procs : PassesChecks(p) => code'[p] \notin used]_vars

\* A request presenting an already exchanged code has just been denied.
C1_Witness ==
    /\ last.op = "exchange"
    /\ last.stage = "check_code"
    /\ last.err = ErrorAccessDenied
    /\ last.key \in used

\* C2: however token requests presenting the same code interleave, no more
\* grants are issued from a raw code value than codes of that value were
\* stored: of the requests racing for one stored code at most one issues a
\* grant.
C2_SingleWinner ==
    \A c \in Tokens : outstanding[c] >= 0

\* One request has just been granted the last outstanding code of its value
\* while another, which passed the same checks, is about to delete it.
C2_Witness ==
    /\ last.op = "exchange"
    /\ last.stage = "granted"
    /\ outstanding[last.key] = 0
    /\ \E p \in Procs : pc[p] = "delete_code" /\ code[p] = last.key

\* C3 (as stated): a token request that is refused on account of its code,
\* be it unknown, invalid or lost to a racing request, is answered
\* access_denied and never with another error.
C3_LoserSeesNotFound ==
    (last.op = "exchange" /\ last.stage \in {"check_code", "delete_code"})
        => last.err = ErrorAccessDenied

\* C4: a token request that ends at any check before the deletion leaves the
\* stored codes as they were, and a stored code disappears only in the
\* deletion step of a request that has passed those checks.
C4_DeleteOnlyAfterChecks ==
    [][/\ ExchangeEndsEarly => authCodes' = authCodes
       /\ (\E c \in DOMAIN authCodes : c \notin DOMAIN authCodes') =>
             \E p \in Procs : pc[p] = "delete_code" /\ pc'[p] = "issue"]_vars

\* A request has just failed the client's redirect-URI check and the code it
\* presented is still stored and unexpired.
C4_Witness ==
    /\ last.op = "exchange"
    /\ last.stage = "redirect_uri"
    /\ last.key \in DOMAIN authCodes
    /\ ~Elapsed(authCodes[last.key], now)

\* C5: when CreateGrant or PutGrant fails, the request ends with server_error
\* (500), no grant is stored, and the code it deleted is not put back.
C5_IssuanceFailureKeepsCodeDeleted ==
    [][(last'.op = "exchange" /\ last'.stage \in {"create_grant", "put_grant"}) =>
            /\ last'.err = ErrorServerError
            /\ last'.status = StatusInternalServerError
            /\ ~last'.issued
            /\ grants' = grants
            /\ authCodes' = authCodes
            /\ last'.key \in consumed' => last'.key \notin DOMAIN authCodes']_vars

\* Storing the grant has just failed; the code that was deleted is gone.
C5_Witness ==
    /\ last.op = "exchange"
    /\ last.stage = "put_grant"
    /\ last.key \in consumed
    /\ last.key \notin DOMAIN authCodes

\* C6: a token request with valid credentials that presents a stored code
\* whose lifetime has elapsed is answered access_denied (401), stores no
\* grant and never reaches the deletion.
C6_ExpiredCodeDenied ==
    [][/\ ( /\ ExchangeEndsEarly
            /\ last'.stage \notin PreStages
            /\ last'.key \in DOMAIN authCodes
            /\ Elapsed(authCodes[last'.key], now) ) =>
                /\ last'.stage = "check_code"
                /\ last'.err = ErrorAccessDenied
                /\ last'.status = StatusUnauthorized
                /\ grants' = grants
       /\ \A p \in Procs :
             (PassesChecks(p) /\ code'[p] \in DOMAIN authCodes) =>
                 ~Elapsed(authCodes[code'[p]], now)]_vars

\* A code bound to no redirect URI has just been refused, on its first
\* presentation, at the very tick at which its lifetime ended.
C6_Witness ==
    /\ last.op = "exchange"
    /\ last.stage = "check_code"
    /\ last.key \in DOMAIN authCodes
    /\ authCodes[last.key].RedirectURI = ""
    /\ now = authCodes[last.key].CreatedAt + authCodes[last.key].ExpiresIn
    /\ last.key \notin consumed

\* C7: CheckAuthorizationCode(code, redirectURI) returns nil exactly when a
\* code of that raw value is stored, its redirect URI is empty or equal to
\* redirectURI, and its lifetime has not elapsed; otherwise it returns
\* access_denied.
C7_CheckAuthorizationCode ==
    [][last'.op = "checkCode" =>
          LET valid == /\ last'.key \in DOMAIN authCodes
                       /\ authCodes[last'.key].RedirectURI \in {"", last'.uri}
                       /\ ~Elapsed(authCodes[last'.key], now)
          IN /\ valid => last'.err = nil
             /\ ~valid => last'.err = ErrorAccessDenied]_vars

\* A code bound to a redirect URI has just been checked successfully.
C7_Witness ==
    /\ last.op = "checkCode"
    /\ last.err = nil
    /\ last.key \in DOMAIN authCodes
    /\ authCodes[last.key].RedirectURI = last.uri
    /\ last.uri # ""

\* C8: a call of CheckAuthorizationCode leaves the stored codes and grants as
\* they were, whether it succeeds or fails.
C8_CheckDoesNotModify ==
    [][last'.op = "checkCode" => (authCodes' = authCodes /\ grants' = grants)]_vars

\* A check of a stored code has just failed and the code is still stored.
C8_Witness ==
    /\ last.op = "checkCode"
    /\ last.err = ErrorAccessDenied
    /\ last.key \in DOMAIN authCodes

\* The lifetime of a grant has not yet elapsed at time t.
Live(g, t) == t < g.CreatedAt + (g.ExpiresIn * Second)

\* C9 (as stated): CheckGrant on a stored grant returns nil while
\* now < created_at + expires_in, and once now >= created_at + expires_in it
\* returns access_denied and leaves no grant stored under the token.
C9_CheckGrantExpiry ==
    [][/\ (last'.op = "checkGrant" /\ last'.stage = "valid") =>
             /\ last'.key \in DOMAIN grants
             /\ Live(grants[last'.key], now)
       /\ \A p \in Procs :
             (pc[p] = "idle" /\ pc'[p] = "delete_grant") =>
                 ~Live(grants[code'[p]], now)
       /\ (last'.op = "checkGrant" /\ last'.stage = "expired") =>
             /\ last'.err = ErrorAccessDenied
             /\ last'.key \notin DOMAIN grants']_vars

\* C10 (as stated): CheckGrant on an expired grant returns access_denied
\* whether or not its DeleteGrant succeeded.
C10_ExpiredAlwaysAccessDenied ==
    (last.op = "checkGrant" /\ last.stage = "expired") => last.err = ErrorAccessDenied

\* A call of NewAuthorizationCode passes, in this step, its collision check.
MintPasses(p) == pc[p] = "idle" /\ pc'[p] = "put_code"
\* A call of NewAuthorizationCode stores, in this step, its code.
MintStores(p) == pc[p] = "put_code" /\ pc'[p] = "idle"

C14_MintIsAtomic ==
    [][\A p \in Procs : MintStores(p) => code[p] \notin DOMAIN authCodes]_vars

\* A call of NewGrant stores, in this step, its grant.
GrantStores(p) == pc[p] = "put_grant" /\ pc'[p] = "idle"

\* C11 (as stated): issuing a grant never replaces a live grant stored under
\* the same access token, so no two live grants that were returned as issued
\* share a token.
C11_IssueNeverReplacesLive ==
    [][\A p \in Procs :
          GrantStores(p) =>
              ~ /\ newGrant[p].AccessToken \in DOMAIN grants
                /\ Live(grants[newGrant[p].AccessToken], now)]_vars

\* C12 (as stated): NewGrant never starts over: when the token it generated
\* collides with a stored grant it returns server_error at once.
C12_CollisionIsServerError ==
    [][\A p \in Procs : pc'[p] # "new_grant"]_vars

\* What the request says of the client and the redirect URI: the client is
\* known, eligible for the grant type, and authorizes the URI as url.Parse
\* reads it.
Trusted(r) ==
    /\ r.clientKnown
    /\ r.allowStrategy
    /\ ParseURL(r.redirectURI).err = nil
    /\ ParseURL(r.redirectURI).uri \in r.allowed

\* C15: a request to handleAuthorizationCodeGrant whose client is unknown or
\* ineligible, or whose redirect URI does not parse or is not authorized by
\* the client, is answered by a direct JSON error; every redirect goes to a
\* URI the known client authorizes.
C15_NoRedirectBeforeTrust ==
    last.op = "authorize" =>
        /\ ~Trusted(last.request) => last.via = "json"
        /\ last.via = "redirect" =>
              /\ last.request.clientKnown
              /\ last.uri \in last.request.allowed

\* The client authorizes the redirect URI only in the spelling of the
\* request, not as url.Parse reads it: the request got a JSON error.
C15_Witness ==
    /\ last.op = "authorize"
    /\ last.stage = "redirect_uri"
    /\ last.via = "json"
    /\ last.request.redirectURI = "U1"
    /\ last.request.allowed = {"U1"}

\* C18 (as stated): a request of a known, eligible client with an authorized
\* redirect URI whose response_type is not recognized is answered by a 302
\* redirect to that URI carrying error=unsupported_response_type, and is
\* handed no code.
C18_UnsupportedTypeRedirects ==
    (/\ last.op = "authorize"
     /\ Trusted(last.request)
     /\ last.request.responseType \notin authorizeHandlers) =>
        /\ last.via = "redirect"
        /\ last.status = StatusFound
        /\ last.uri = ParseURL(last.request.redirectURI).uri
        /\ <<"error", ErrorUnsupportedResponseType>> \in last.params
        /\ last.key = ""

\* The resource owner of a POST is turned down: by the client, or by the
\* Authenticator.
OwnerRefused(r) ==
    /\ r.op = "authorize"
    /\ r.method = "POST"
    /\ r.ownerErr \/ ~r.ownerAllowed \/ ~r.credsOK

\* C19: a POST whose resource owner the client refuses, or whose credentials
\* the Authenticator rejects, gets the error rendered inline; it is not
\* redirected, and no code is minted or stored for it.
C19_OwnerFailureInline ==
    [][/\ (last'.op = "authorize" /\ OwnerRefused(last'.request)) =>
             /\ last'.via = "inline"
             /\ last'.err # nil
             /\ last'.key = ""
             /\ authCodes' = authCodes
       /\ \A p \in Procs : pc'[p] = "put_code" => ~OwnerRefused(request'[p])]_vars

\* The Authenticator has just rejected the credentials of a POST, while a
\* code of an earlier request is stored.
C19_Witness ==
    /\ last.op = "authorize"
    /\ last.stage = "credentials"
    /\ last.via = "inline"
    /\ ~last.request.credsOK
    /\ authCodes # EmptyMap

\* A POST that passes every check of the authorize phase.
PassesAuthorize(r) ==
    /\ r.op = "authorize"
    /\ r.responseType = ResponseTypeCode
    /\ r.method = "POST"
    /\ Trusted(r)
    /\ ~r.scopeErr /\ r.parseFormOK /\ ~OwnerRefused(r) /\ ~r.tokenErr

\* C20: a POST that passes every check is only ever turned away by a
\* collision of the generated code; when it stores its code, that is the one
\* change to the stored codes, the code is bound to the redirect_uri of the
\* request and to the scope as narrowed by the client and then by the
\* Authenticator, and the answer is a 302 redirect to the authorized URI
\* carrying the code, and the state if the request has one.
C20_AuthorizeStoresAndRedirects ==
    [][/\ (last'.op = "authorize" /\ PassesAuthorize(last'.request)) =>
             last'.stage \in {"collision", "redirect"}
       /\ \A p \in Procs :
             (MintStores(p) /\ request[p].op = "authorize") =>
                 LET r == request[p]
                     c == code[p]
                 IN /\ PassesAuthorize(r)
                    /\ DOMAIN authCodes' = DOMAIN authCodes \cup {c}
                    /\ \A d \in DOMAIN authCodes \ {c} : authCodes'[d] = authCodes[d]
                    /\ authCodes'[c].Code = c
                    /\ authCodes'[c].RedirectURI = r.redirectURI
                    /\ authCodes'[c].Scope = Keep(Keep(RequestedScope, r.clientKeep), r.ownerKeep)
                    /\ last'.via = "redirect"
                    /\ last'.status = StatusFound
                    /\ last'.uri = ParseURL(r.redirectURI).uri
                    /\ last'.uri \in r.allowed
                    /\ last'.key = c
                    /\ <<"code", c>> \in last'.params
                    /\ r.state # "" => <<"state", r.state>> \in last'.params]_vars

\* A POST whose scope the Authenticator narrowed has just been redirected
\* with its code.
C20_Witness ==
    /\ last.op = "authorize"
    /\ last.stage = "redirect"
    /\ last.request.ownerKeep < last.request.clientKeep
    /\ last.key \in DOMAIN authCodes
    /\ authCodes[last.key].Scope = <<"read">>
    /\ <<"code", last.key>> \in last.params

\* C16 (as stated): the implicit flow redirects, with a grant or with an
\* error, only when the client is known and authorizes the redirect_uri of
\* the request.
C16_ImplicitRedirectOnlyIfTrusted ==
    (last.op = "implicit" /\ last.via = "redirect") =>
        /\ last.request.clientKnown
        /\ last.request.redirectURI \in last.request.allowed

\* C17 (as stated): every redirect of the implicit flow, with a grant or with
\* an error, carries the state of the request if it has one.
C17_ImplicitStateEchoed ==
    (last.op = "implicit" /\ last.via = "redirect" /\ last.request.state # "") =>
        <<"state", last.request.state>> \in last.params

\* The request passes every check of its handler of the token endpoint.
PassesToken(r) ==
    /\ r.basicAuth /\ r.clientKnown /\ ~r.client.scopeErr
    /\ IF r.op = "clientcreds"
       THEN r.grantType = GrantTypeClientCredentials
       ELSE /\ r.grantType = GrantTypePassword
            /\ r.username # "" /\ ~r.ownerErr /\ r.password # "" /\ r.credsOK

\* C21 (as stated): a client whose AllowStrategy returns false for the
\* strategy of a flow never obtains an authorization code or a grant from
\* the handler of that flow.
C21_DisallowedStrategyGetsNothing ==
    (last.op \in {"authorize", "implicit", "clientcreds", "password"}
        /\ ~last.request.allowStrategy) =>
            (~last.issued /\ last.key = "")

\* The scope a client with the scope allowed grants of a scope parameter.
Narrowed(allowed, raw) ==
    LET asked == Split(raw) IN
    SelectSeq(asked, LAMBDA w : \E i \in 1..Len(allowed) : allowed[i] = w)

\* The instant a grant expires.
ExpiresAt(g) == g.CreatedAt + (g.ExpiresIn * Second)

\* C22 (as stated): a client-credentials request with the right grant type,
\* the Basic credentials of a known client and a scope the client allows is
\* answered 200 with a bearer grant whose scope is the requested scope as
\* the client narrows it; the grant is stored, and stays checkable under its
\* access token until it expires.
C22_ClientCredentialsGrant ==
    [][/\ (last'.op = "clientcreds" /\ PassesToken(last'.request)
              /\ ~last'.request.writeErr) =>
             /\ last'.status = StatusOK
             /\ last'.body.token_type = "bearer"
             /\ last'.body.scope =
                   Narrowed(last'.request.client.scope, last'.request.rawScope)
             /\ last'.key \in DOMAIN grants'
             /\ grants'[last'.key].Scope = last'.body.scope
             /\ grants'[last'.key].AccessToken = last'.body.access_token
       /\ \A tok \in DOMAIN grants :
             (grants[tok].Client # NoClient /\ now' < ExpiresAt(grants[tok])) =>
                 /\ tok \in DOMAIN grants'
                 /\ ExpiresAt(grants'[tok]) >= ExpiresAt(grants[tok])]_vars

\* A handler of the token endpoint ends, in this step, without a grant.
TokenRefused(r) ==
    r.op \in {"clientcreds", "password"} /\ r.stage \notin {"granted", "write", "new_grant"}

\* C23: in the client-credentials and the password handler the first failing
\* check ends the request with a JSON error and leaves the session store as
\* it was; a grant enters the store only for a request that passed every
\* check of its flow.
C23_FailingCheckStoresNothing ==
    [][/\ TokenRefused(last') =>
             /\ ~PassesToken(last'.request)
             /\ last'.via = "json"
             /\ last'.err # nil
             /\ ~last'.issued
             /\ store' = store
       /\ \A p \in Procs :
             (pc[p] = "idle" /\ pc'[p] # "idle") => PassesToken(request'[p])
       /\ grants' # grants =>
             \E p \in Procs : GrantStores(p) /\ PassesToken(request[p])]_vars

\* A request with the wrong credentials of the resource owner has been turned
\* away while a grant is stored.
C23_Witness ==
    /\ last.op = "password"
    /\ last.stage = "credentials"
    /\ ~last.request.credsOK
    /\ "t1" \in DOMAIN grants

\* The check the password handler is to end at, in the order of the flow.
PasswordStage(r) ==
    CASE r.grantType # GrantTypePassword -> "grant_type"
      [] r.grantType = GrantTypePassword /\ ~r.basicAuth -> "basic_auth"
      [] OTHER ->
           IF ~r.clientKnown THEN "client"
           ELSE IF r.username = "" THEN "username"
           ELSE IF r.ownerErr THEN "owner"
           ELSE IF r.password = "" THEN "password"
           ELSE IF r.client.scopeErr THEN "scope"
           ELSE IF ~r.credsOK THEN "credentials"
           ELSE "granted"

\* C24: the password handler checks, in this order, the grant type, the
\* client's Basic credentials, the username, the client's consent to the
\* resource owner, the password, the client's scope and the Authenticator:
\* the Authenticator is asked only when all the earlier checks passed, it is
\* given the scope as the client narrowed it, and the scope it returns is the
\* scope of the grant issued.
C24_PasswordOrder ==
    (last.op = "password" /\ ~last.request.writeErr) =>
        LET r == last.request
            narrowed == Narrowed(r.client.scope, r.rawScope)
            asked == \E i \in 1..Len(last.calls) : last.calls[i] = "authenticator"
        IN /\ last.stage = PasswordStage(r)
           /\ asked <=> PasswordStage(r) \in {"credentials", "granted"}
           /\ asked => last.asked = narrowed
           /\ last.stage = "granted" =>
                 /\ last.body.scope = Keep(narrowed, r.ownerKeep)
                 /\ last.key \in DOMAIN grants
                 /\ grants[last.key].Scope = last.body.scope

\* A grant has been issued for the one entry the client allows of the two
\* the request named.
C24_Witness ==
    /\ last.op = "password"
    /\ last.stage = "granted"
    /\ Len(Split(last.request.rawScope)) = 2
    /\ last.asked = <<"write">>
    /\ grants[last.key].Scope = <<"write">>

\* The request to the authorize endpoint passes every check before the one
\* of the scope.
PromptShown(r) ==
    /\ r.entry = "endpoint" /\ r.responseType = ResponseTypeCode /\ r.method = "GET"
    /\ r.clientKnown /\ r.allowStrategy /\ ~r.scopeErr
    /\ ParseURL(r.redirectURI).err = nil
    /\ ParseURL(r.redirectURI).uri \in r.allowed

Entries(sc) == {sc[i] : i \in 1..Len(sc)}

\* C26 (as stated): Grant.CheckScope returns access_denied whenever an entry
\* of the required scope is missing from the scope of the grant or, when the
\* grant carries a client, from the scope the client's AuthorizeScope returns
\* for the required scope; it returns nil only when every entry passes every
\* layer.
C26_CheckScopeEveryLayer ==
    (last.op = "checkScope" /\ ~last.request.grant.Client.scopeErr) =>
        LET g == last.request.grant
            required == Entries(last.request.requiredScope)
            authorized == ClientAuthorizeScope(g.Client, last.request.requiredScope)
            passes == /\ required \subseteq Entries(g.Scope)
                      /\ g.Client # NoClient => required \subseteq Entries(authorized.scope)
        IN /\ ~passes => last.err = ErrorAccessDenied
           /\ passes => last.err = nil

\* C27: for a client that keeps a list of the scope it allows, AuthorizeScope
\* of a requested scope that lies within the list returns just the entries
\* requested, AuthorizeScope of its own result returns the same entries, and
\* so does an Authenticator that hands back the scope it is given.
C27_NarrowingIdempotent ==
    (last.op = "authorizeScope" /\ ~last.request.client.scopeErr) =>
        /\ Entries(last.requested) \subseteq Entries(last.request.client.scope) =>
              Entries(last.scope) = Entries(last.requested)
        /\ Entries(last.scope) \subseteq Entries(last.requested)
        /\ Entries(last.scope) \subseteq Entries(last.request.client.scope)
        /\ Entries(last.again) = Entries(last.scope)
        /\ Entries(last.granted) = Entries(last.scope)

\* One of the two entries the client allows was requested, and granted.
C27_Witness ==
    /\ last.op = "authorizeScope"
    /\ last.requested = <<"write">>
    /\ last.request.client.scope = <<"read", "write">>
    /\ last.scope = <<"write">>
    /\ last.again = <<"write">>
    /\ last.granted = <<"write">>

\* The header is the scheme Bearer, one space and something else.
BearerAndSpace(cred) == Len(cred) >= 3 /\ cred[1] = "Bearer" /\ cred[2] = " "

\* C28 (as stated): the bearer gate invokes the handler only if the
\* Authorization header is there, begins with "Bearer " and goes on with the
\* access token of a grant CheckGrant accepts; if the header is missing or
\* begins otherwise, or the token is unknown or has expired, the response is
\* access_denied with status 401 and the handler is not invoked.
C28_BearerGate ==
    last.op = "gate" =>
        /\ last.invoked > 0 =>
              /\ BearerAndSpace(last.request.cred)
              /\ last.key \in DOMAIN grants
              /\ Live(grants[last.key], now)
        /\ (~BearerAndSpace(last.request.cred)
               \/ last.stage \in {"no_header", "scheme", "check_grant"}) =>
              /\ last.err = ErrorAccessDenied
              /\ last.status = StatusUnauthorized
              /\ last.invoked = 0

\* The gate has found the grant of the token presented, and it has not
\* expired.
GateChecked(r) == r.op = "gate" /\ r.stage \in {"no_client", "scope", "handler"}

\* C29 (as stated): a request with a valid, unexpired token to a gate whose
\* required scope is not within the scope of the grant is answered
\* access_denied with status 401, and the handler is not invoked.
C29_OutOfScopeDenied ==
    (GateChecked(last) /\ last.request.required
        /\ ~(Entries(last.request.requiredScope) \subseteq Entries(grants[last.key].Scope))) =>
            /\ last.err = ErrorAccessDenied
            /\ last.status = StatusUnauthorized
            /\ last.invoked = 0

\* The grant satisfies the required scope: every entry is in the scope of
\* the grant and, if the grant carries a client, in the scope the client
\* authorizes.
Satisfies(g, requiredScope) ==
    LET authorized == ClientAuthorizeScope(g.Client, requiredScope) IN
    /\ Entries(requiredScope) \subseteq Entries(g.Scope)
    /\ g.Client # NoClient =>
          /\ authorized.err = nil
          /\ Entries(requiredScope) \subseteq Entries(authorized.scope)

\* C30 (as stated): a request with a valid, unexpired token whose grant
\* satisfies the required scope has the handler invoked exactly once, and the
\* gate writes nothing itself.
C30_InScopeInvokesOnce ==
    (GateChecked(last)
        /\ ~last.request.scopeErr
        /\ (last.request.required => Satisfies(grants[last.key], last.request.requiredScope))) =>
            /\ last.invoked = 1
            /\ last.writes = 0
            /\ last.status = 0

\* The authorization-code grant from end to end: the authorize endpoint
\* hands out codes, the token endpoint exchanges them.  The codes are
\* exchanged before they expire; the clock stands still.
NextExchange ==
    \/ \E p \in Procs, r \in AuthorizeGranted, c \in Tokens : AuthorizeRequest(p, r, c)
    \/ \E p \in Procs : NewAuthorizationCodePut(p)
    \/ \E p \in Procs, r \in ExchangeRequests : ExchangeRequest(p, r)
    \/ \E p \in Procs : TokenRequestDelete(p)
    \/ \E p \in Procs, putErr \in BOOLEAN, writeErr \in BOOLEAN,
          status \in {StatusOK, StatusInternalServerError} :
          \E created \in CreateGrant(scope[p], now) :
             TokenRequestIssue(p, created, putErr, writeErr, status)

SpecExchange == Init /\ [][NextExchange]_vars

\* C31 (as stated): a gate whose required scope is nil or empty asks for
\* nothing but a valid, unexpired token: the handler is invoked, whatever the
\* scope of the grant and whether or not the grant carries a client.
C31_NoScopeAuthenticatedOnly ==
    (GateChecked(last) /\ Len(last.request.requiredScope) = 0) =>
        /\ last.stage = "handler"
        /\ last.invoked = 1

\* The step is the gate's delete of an expired grant.
GateDeletes(p) ==
    /\ pc[p] = "delete_grant"
    /\ request[p].op = "gate"
    /\ pc'[p] = "idle"

\* C32: the bearer gate changes the session store only through the delete of
\* an expired grant inside CheckGrant, which removes at most the grant of the
\* token presented: a request whose header is missing or malformed, whose
\* token is unknown or has not expired, or whose scope check fails leaves
\* every grant and every authorization code as it was.
C32_GateLeavesStore ==
    [][/\ (last'.op = "gate" /\ ~\E p \in Procs : GateDeletes(p)) => store' = store
       /\ \A p \in Procs :
             (pc[p] = "idle" /\ pc'[p] = "delete_grant") =>
                 /\ store' = store
                 /\ GrantIsExpired(grants[code'[p]], now)
       /\ \A p \in Procs :
             GateDeletes(p) =>
                 /\ authCodes' = authCodes
                 /\ DOMAIN grants' = DOMAIN grants \ {code[p]}
                 /\ \A k \in DOMAIN grants' : grants'[k] = grants[k]
                 /\ last'.stage = "check_grant"
                 /\ last'.invoked = 0]_vars

\* The gate has refused a request over the scope it requires while the grant
\* of the token presented is stored, and a grant that had expired is gone.
C32_Witness ==
    /\ last.op = "gate"
    /\ last.stage \in {"scope", "no_client"}
    /\ last.key \in DOMAIN grants
    /\ now > 0

\* C38 (as stated): the gate writes an error or invokes the handler, never
\* both; once it has written access_denied the handler is not invoked.
C38_ErrorOrHandler ==
    last.op = "gate" =>
        /\ ~(last.writes > 0 /\ last.invoked > 0)
        /\ last.writes + last.invoked > 0
        /\ last.err = ErrorAccessDenied => last.invoked = 0

\* The step puts a grant under the access token k, or deletes the grant
\* under it.
PutsGrant(k) ==
    \/ last'.op = "PutGrant" /\ last'.key = k
    \/ \E p \in Procs : GrantStores(p) /\ newGrant[p].AccessToken = k
DeletesGrant(k) == last'.op = "DeleteGrant" /\ last'.key = k

\* C33: after PutGrant(g), GetGrant(g.AccessToken) returns g; after NewGrant
\* has returned a grant, GetGrant on its access token returns that grant; and
\* GetGrant goes on returning it until a put or a delete on that key.
C33_StoreRoundTrip ==
    [][/\ last'.op = "PutGrant" =>
             GetGrant(grants', last'.request.grant.AccessToken) =
                 [grant |-> last'.request.grant, err |-> nil]
       /\ \A p \in Procs :
             GrantStores(p) =>
                 /\ last'.err = nil
                 /\ last'.key = newGrant[p].AccessToken
                 /\ GetGrant(grants', last'.key) = [grant |-> newGrant[p], err |-> nil]
       /\ \A k \in AccessTokens :
             (~PutsGrant(k) /\ ~DeletesGrant(k)) => GetGrant(grants', k) = GetGrant(grants, k)
       /\ (last'.op = "GetGrant" /\ last'.err = nil) =>
             last'.grant = grants[last'.key]]_vars

\* GetGrant has returned a grant that was put, while a second grant is
\* stored.
C33_Witness ==
    /\ last.op = "GetGrant"
    /\ last.err = nil
    /\ last.grant.Scope = <<"write">>
    /\ last.grant.CreatedAt = 0
    /\ Cardinality(DOMAIN grants) = 2

\* The records of m other than the one under k are those of n.
OthersKept(m, n, k) ==
    /\ DOMAIN n = DOMAIN m \ {k}
    /\ \A x \in DOMAIN n : n[x] = m[x]

\* C37: in the in-memory backend GetGrant and GetAuthorizationCode on an
\* absent key return access_denied, DeleteGrant and DeleteAuthorizationCode
\* on an absent key return server_error, and none of these calls changes the
\* store; a successful delete removes the record addressed and leaves every
\* other grant and code as it was.
C37_AbsentKeys ==
    [][/\ (last'.op \in {"GetGrant", "DeleteGrant"} /\ last'.key \notin DOMAIN grants) =>
             /\ last'.err = (IF last'.op = "GetGrant" THEN ErrorAccessDenied ELSE ErrorServerError)
             /\ last'.grant = NoGrant
             /\ store' = store
       /\ (last'.op \in {"GetAuthorizationCode", "DeleteAuthorizationCode"}
               /\ last'.key \notin DOMAIN authCodes) =>
             /\ last'.err = (IF last'.op = "GetAuthorizationCode"
                             THEN ErrorAccessDenied ELSE ErrorServerError)
             /\ last'.authCode = NoAuthCode
             /\ store' = store
       /\ (last'.op = "DeleteGrant" /\ last'.key \in DOMAIN grants) =>
             /\ last'.err = nil
             /\ OthersKept(grants, grants', last'.key)
             /\ authCodes' = authCodes
       /\ (last'.op = "DeleteAuthorizationCode" /\ last'.key \in DOMAIN authCodes) =>
             /\ last'.err = nil
             /\ OthersKept(authCodes, authCodes', last'.key)
             /\ grants' = grants]_vars

\* A delete has failed on an absent key while a grant and a code are stored
\* under other keys.
C37_Witness ==
    /\ last.op \in {"DeleteGrant", "DeleteAuthorizationCode"}
    /\ last.err = ErrorServerError
    /\ DOMAIN grants # {}
    /\ DOMAIN authCodes # {}

\* Refresh has run to its end on the grant.
Initialised(g) == g.AccessToken # "" /\ g.ExpiresIn = DefaultTokenExpiry

\* C34 (as stated): when the token generator fails, NewAuthorizationCode
\* returns the error and no code, nothing is written to the store, and no
\* code or grant with an empty or partially initialised token is stored or
\* handed out.
C34_TokenFailureHandsOutNothing ==
    /\ (last.op = "newCode" /\ last.stage = "token") =>
          /\ last.err = ErrorToken
          /\ last.key = ""
    /\ \A c \in DOMAIN authCodes : authCodes[c].Code # ""
    /\ \A k \in DOMAIN grants : Initialised(grants[k])
    /\ (last.op = "newGrant" /\ last.err = nil) => last.key # ""

\* C35: the masked form of a Secret depends on its length alone: String() is
\* one x for every character of the raw value, so two secrets of equal
\* length are rendered alike, and RawString() is the raw value.
C35_MaskDependsOnLength ==
    last.op = "secret" =>
        LET a == last.request.a
            b == last.request.b
        IN /\ Len(last.masked[1]) = Len(a)
           /\ \A i \in 1..Len(a) : last.masked[1][i] = "x"
           /\ Len(a) = Len(b) => last.masked[1] = last.masked[2]
           /\ last.raw = <<a, b>>

\* Two different secrets of the same length have been rendered, one of them
\* with a rune of two bytes.
C35_Witness ==
    /\ last.op = "secret"
    /\ last.request.a # last.request.b
    /\ Len(last.request.a) = Len(last.request.b)
    /\ Len(last.request.a) >= 2
    /\ \E i \in 1..Len(last.request.a) : last.request.a[i] = "U+00E9"

\* The error kinds of the taxonomy that the handlers report.
ErrorKinds ==
    {ErrorInvalidRequest, ErrorUnauthorizedClient, ErrorAccessDenied, ErrorInvalidScope,
     ErrorServerError}

\* C36 (as stated): a failing check of a grant-type handler is answered with
\* the status fixed for the error kind it reports, and an error is never
\* sent with status 200.
C36_ErrorStatus ==
    (last.op \in {"authorize", "exchange", "implicit", "clientcreds", "password"}
        /\ last.err # nil) =>
            /\ last.status # StatusOK
            /\ last.err \in ErrorKinds => last.status = StatusCode(last.err)

\* C39 (as stated): an authorization code is exchanged only by the client it
\* was issued to: whenever an exchange stores a grant, the client that
\* authenticated the token request is the client named in the code.
C39_OnlyIssuingClientExchanges ==
    [][\A p \in Procs :
          (pc[p] = "issue" /\ pc'[p] = "idle" /\ last'.issued) =>
              request[p].clientID = authCode[p].ClientID]_vars

\* C40: the grant of a successful exchange carries the scope stored in the
\* code: the handler takes the stored code as it is, carries its scope
\* through the deletion, and the grant it stores has exactly that scope,
\* whatever scope parameter the token request carries.
C40_GrantCarriesCodeScope ==
    [][\A p \in Procs :
          /\ (pc[p] = "idle" /\ pc'[p] = "delete_code") =>
                /\ code'[p] \in DOMAIN authCodes
                /\ authCode'[p] = authCodes[code'[p]]
                /\ scope'[p] = authCodes[code'[p]].Scope
          /\ (pc[p] = "delete_code" /\ pc'[p] = "issue") =>
                /\ authCode'[p] = authCode[p]
                /\ scope'[p] = scope[p]
          /\ (pc[p] = "issue" /\ pc'[p] = "idle" /\ last'.issued) =>
                \A k \in DOMAIN grants' :
                   (k \notin DOMAIN grants \/ grants'[k] # grants[k]) =>
                       grants'[k].Scope = authCode[p].Scope]_vars

\* A request asking for more than the code holds has passed the checks and
\* spent the code: its grant is about to be made for the scope of the code.
C40_Witness ==
    \E p \in Procs :
       /\ pc[p] = "issue"
       /\ request[p].op = "exchange"
       /\ request[p].rawScope = <<"read", " ", "write">>
       /\ authCode[p].Scope = <<"read">>
       /\ scope[p] = <<"read">>
       /\ code[p] \notin DOMAIN authCodes

====
